---- MODULE Spec2Model ----
(***************************************************************************)
(* Model of the weather aggregator: WeatherCache, Aggregator, the         *)
(* BaseClient circuit breaker and retry loop, and the Scheduler.           *)
(* Time is a discrete clock `now`; a time.Duration is a number of ticks.   *)
(***************************************************************************)
EXTENDS Integers, Naturals, Sequences, FiniteSets, TLC

\* ------------------------------------------------------------------ bounds
MaxTime == 3

\* ------------------------------------------------ configuration (config.go)
maxSize == 2
defaultDuration == 1

Cities == {"Prague", "London"}
Procs == {"g1", "g2"}
CacheDays == {1}
Payloads == {"w1"}

VARIABLES
    now,             \* time.Now()
    currentWeather,  \* WeatherCache.currentWeather : city -> CacheItem
    forecast,        \* WeatherCache.forecast : city -> days -> CacheItem
    get,             \* per goroutine: the item a Get read under RLock, before its expiry check
    last,            \* the latest cache operation and, for a Get, what it returned
    weatherData,     \* Aggregator.weatherData : city -> snapshot
    successCount,    \* Aggregator.successCount
    failureCount,    \* Aggregator.failureCount
    lastFetchTime,   \* Aggregator.lastFetchTime
    call,            \* per caller: the GetAggregated* / FetchWeatherData call in progress
    cyc,             \* per caller and city: the fetchCityWeather goroutine of that call
    ret,             \* what the latest aggregator call returned
    cbState,         \* gobreaker.CircuitBreaker.state of the BaseClient's breaker
    cbCounts,        \* gobreaker.CircuitBreaker.counts
    cbGeneration,    \* gobreaker.CircuitBreaker.generation
    cbExpiry,        \* gobreaker.CircuitBreaker.expiry
    req,             \* per goroutine: its GetWithRetry call inside Execute
    cbRet,           \* what the latest GetWithRetry call returned
    multiplier,      \* BaseClient.multiplier (0 until NewBaseClient ran)
    retryDelay,      \* BaseClient.retryDelay
    fetch,           \* per goroutine: its doGetWithRetry loop
    running,         \* Scheduler.running
    ticker,          \* Scheduler.ticker: whether it runs and when it ticks next
    tickPending,     \* whether Scheduler.ticker.C holds a tick
    runLoop,         \* the Scheduler.run goroutine: "select" while it loops
    exiting,         \* the run goroutines that received s.stop and have yet to stop the
                     \* ticker: how many of them have seen s.ticker replaced since
    lastRun,         \* Scheduler.lastRun
    pending,         \* spawned runFetch goroutines that have not run yet, per trigger
    cycles,          \* refresh cycles in flight (runFetch inside FetchWeatherData), per trigger
    evt,             \* the latest scheduler step; sched is when the previous scheduled
                     \* cycle of the current run started (NoTime if none)
    cities,          \* Scheduler.cities
    handing,         \* per trigger: the cycles in flight whose runFetch has yet to read
                     \* s.cities for its call of FetchWeatherData
    snap,            \* the models.WeatherData handed to the aggregation functions
    mcur,            \* what aggregateCurrentWeather returned for snap
    mfc,             \* what aggregateForecast returned for snap and a day-count
    task,            \* per city and source: the source goroutine of fetchCityWeather
    deadline,        \* the context of the refresh: whether its deadline has passed, and
                     \* the cities whose cycle was not over when it passed
    mu,              \* Scheduler.mu: "free", or the goroutine that holds it across steps
    pos,             \* per caller of Start / Stop / GetStatus: where it is in the call
    amu,             \* Aggregator.mu
    cmu,             \* WeatherCache.mu
    rf,              \* per caller: its FetchWeatherData call, lock by lock
    cg,              \* per caller and city of its list: the city's goroutine
    gs,              \* the goroutine of a handler in GetLastFetchTime or GetStats
    sweep,           \* the cleanup goroutine of the cache
    cget             \* the goroutine in a Get of the cache

cacheVars == <<currentWeather, forecast, get, last>>
aggVars == <<weatherData, successCount, failureCount, lastFetchTime, call, cyc, ret>>
cbVars == <<cbState, cbCounts, cbGeneration, cbExpiry, req, cbRet>>
retryVars == <<multiplier, retryDelay, fetch>>
schedVars == <<running, ticker, tickPending, runLoop, exiting, lastRun, pending, cycles, evt,
               cities, handing>>
mergeVars == <<snap, mcur, mfc>>
fanVars == <<task, deadline>>
termVars == <<amu, cmu, rf, cg, gs, sweep, cget>>
lifeVars == <<mu, pos, termVars>>
vars == <<now, currentWeather, forecast, get, last,
          weatherData, successCount, failureCount, lastFetchTime, call, cyc, ret,
          cbState, cbCounts, cbGeneration, cbExpiry, req, cbRet,
          multiplier, retryDelay, fetch,
          running, ticker, tickPending, runLoop, exiting, lastRun, pending, cycles, evt, cities, handing,
          snap, mcur, mfc, task, deadline, mu, pos, amu, cmu, rf, cg, gs, sweep, cget>>

\* ------------------------------------------------------------ map helpers
Emp == [x \in {} |-> 0]
Put(f, k, v) == [x \in (DOMAIN f) \cup {k} |-> IF x = k THEN v ELSE f[x]]
Del(f, k) == [x \in (DOMAIN f) \ {k} |-> f[x]]

\* CacheItem{Data, ExpiresAt}
CacheItem(d, t) == [data |-> d, expiresAt |-> t]
NoItem == [data |-> "nil", expiresAt |-> 0]

Idle == [op |-> "idle", city |-> "", days |-> 0, item |-> NoItem]
NoKey == <<"", 0>>

Expired_Late(item, t) == t > item.expiresAt + 1

\* time.Now().After(item.ExpiresAt)
Expired(item, t) == t > item.expiresAt

\* the (city, days) pairs held by the forecast store
ForecastKeys(fc) == {k \in Cities \X (1..7) : k[1] \in DOMAIN fc /\ k[2] \in DOMAIN fc[k[1]]}

\* totalItems of SetForecast: len(currentWeather) + sum of len(cityForecasts)
totalItems(cw, fc) == Cardinality(DOMAIN cw) + Cardinality(ForecastKeys(fc))

\* evictOldestCurrent: the key a map iteration can end with, an entry of minimal ExpiresAt
evictOldestCurrent(cw) ==
    {k \in DOMAIN cw : \A j \in DOMAIN cw : ~(cw[j].expiresAt < cw[k].expiresAt)}

\* evictOldestForecast: likewise over every (city, days) of the forecast store
evictOldestForecast(fc) ==
    {k \in ForecastKeys(fc) :
        \A j \in ForecastKeys(fc) : ~(fc[j[1]][j[2]].expiresAt < fc[k[1]][k[2]].expiresAt)}

\* SetCurrentWeather: the possible results [cw, evicted]
SetCurrentWeatherResults(cw, city, data, t) ==
    LET item == CacheItem(data, t + defaultDuration) IN
    IF Cardinality(DOMAIN cw) >= maxSize /\ evictOldestCurrent(cw) # {}
    THEN {[cw |-> Put(Del(cw, v), city, item), evicted |-> <<v, 0>>] : v \in evictOldestCurrent(cw)}
    ELSE {[cw |-> Put(cw, city, item), evicted |-> NoKey]}

\* SetForecast: the possible results [fc, evicted]
SetForecastResults(cw, fc, city, days, data, t) ==
    LET item == CacheItem(data, t + defaultDuration)
        fc1 == IF city \in DOMAIN fc THEN fc ELSE Put(fc, city, Emp)
    IN
    IF totalItems(cw, fc1) >= maxSize /\ evictOldestForecast(fc1) # {}
    THEN {[fc |-> LET fc2 == [fc1 EXCEPT ![v[1]] = Del(fc1[v[1]], v[2])]
                  IN [fc2 EXCEPT ![city] = Put(fc2[city], days, item)],
           evicted |-> v] : v \in evictOldestForecast(fc1)}
    ELSE {[fc |-> [fc1 EXCEPT ![city] = Put(fc1[city], days, item)], evicted |-> NoKey]}

cleanupCurrent_DropsAll(cw, t) == Emp

\* cleanup: both stores without their expired items, and without emptied cities
cleanupCurrent(cw, t) ==
    [c \in {x \in DOMAIN cw : ~Expired(cw[x], t)} |-> cw[c]]

cleanupForecast(fc, t) ==
    LET keep(c) == {d \in DOMAIN fc[c] : ~Expired(fc[c][d], t)} IN
    [c \in {x \in DOMAIN fc : keep(x) # {}} |-> [d \in keep(c) |-> fc[c][d]]]

\* ------------------------------------------------------------------ Init
CacheInit ==
    /\ now = 0
    /\ currentWeather = Emp
    /\ forecast = Emp
    /\ get = [p \in Procs |-> Idle]
    /\ last = [op |-> "init", ok |-> FALSE, item |-> NoItem]

Outcome(op, ok, item) == [op |-> op, ok |-> ok, item |-> item]

\* ------------------------------------------------------- cache operations
Tick ==
    /\ now < MaxTime
    /\ now' = now + 1
    /\ UNCHANGED <<cacheVars, aggVars, cbVars, retryVars, schedVars, mergeVars, fanVars, lifeVars>>

SetCurrentWeather(city, data) ==
    \E r \in SetCurrentWeatherResults(currentWeather, city, data, now) :
        /\ currentWeather' = r.cw
        /\ last' = Outcome("SetCurrentWeather", TRUE, NoItem)
        /\ UNCHANGED <<now, forecast, get, aggVars, cbVars, retryVars, schedVars, mergeVars, fanVars, lifeVars>>

SetForecast(city, days, data) ==
    \E r \in SetForecastResults(currentWeather, forecast, city, days, data, now) :
        /\ forecast' = r.fc
        /\ last' = Outcome("SetForecast", TRUE, NoItem)
        /\ UNCHANGED <<now, currentWeather, get, aggVars, cbVars, retryVars, schedVars, mergeVars, fanVars, lifeVars>>

\* GetCurrentWeather, the RLock section: look the city up
GetCurrentWeatherRead(p, city) ==
    /\ get[p] = Idle
    /\ IF city \in DOMAIN currentWeather
       THEN /\ get' = [get EXCEPT ![p] = [op |-> "GetCurrentWeather", city |-> city,
                                           days |-> 0, item |-> currentWeather[city]]]
            /\ UNCHANGED last
       ELSE /\ last' = Outcome("GetCurrentWeather", FALSE, NoItem)
            /\ UNCHANGED get
    /\ UNCHANGED <<now, currentWeather, forecast, aggVars, cbVars, retryVars, schedVars, mergeVars, fanVars, lifeVars>>

\* GetCurrentWeather, after RUnlock: the expiry check, and the delete under Lock
GetCurrentWeatherCheck(p) ==
    /\ get[p].op = "GetCurrentWeather"
    /\ IF Expired(get[p].item, now)
       THEN /\ currentWeather' = Del(currentWeather, get[p].city)
            /\ last' = Outcome("GetCurrentWeather", FALSE, get[p].item)
       ELSE /\ last' = Outcome("GetCurrentWeather", TRUE, get[p].item)
            /\ UNCHANGED currentWeather
    /\ get' = [get EXCEPT ![p] = Idle]
    /\ UNCHANGED <<now, forecast, aggVars, cbVars, retryVars, schedVars, mergeVars, fanVars, lifeVars>>

\* GetForecast, the RLock section
GetForecastRead(p, city, days) ==
    /\ get[p] = Idle
    /\ IF city \in DOMAIN forecast /\ days \in DOMAIN forecast[city]
       THEN /\ get' = [get EXCEPT ![p] = [op |-> "GetForecast", city |-> city,
                                           days |-> days, item |-> forecast[city][days]]]
            /\ UNCHANGED last
       ELSE /\ last' = Outcome("GetForecast", FALSE, NoItem)
            /\ UNCHANGED get
    /\ UNCHANGED <<now, currentWeather, forecast, aggVars, cbVars, retryVars, schedVars, mergeVars, fanVars, lifeVars>>

\* GetForecast, after RUnlock; delete(c.forecast[city], days) is a no-op on a missing city
GetForecastCheck(p) ==
    /\ get[p].op = "GetForecast"
    /\ LET city == get[p].city
           days == get[p].days
       IN
       IF Expired(get[p].item, now)
       THEN /\ forecast' = IF city \in DOMAIN forecast
                           THEN [forecast EXCEPT ![city] = Del(forecast[city], days)]
                           ELSE forecast
            /\ last' = Outcome("GetForecast", FALSE, get[p].item)
       ELSE /\ last' = Outcome("GetForecast", TRUE, get[p].item)
            /\ UNCHANGED forecast
    /\ get' = [get EXCEPT ![p] = Idle]
    /\ UNCHANGED <<now, currentWeather, aggVars, cbVars, retryVars, schedVars, mergeVars, fanVars, lifeVars>>

\* cleanup: the sweep of both stores under c.mu.Lock()
Sweep ==
    /\ currentWeather' = cleanupCurrent(currentWeather, now)
    /\ forecast' = cleanupForecast(forecast, now)
    /\ UNCHANGED <<now, get, aggVars, cbVars, retryVars, schedVars, mergeVars, fanVars, lifeVars>>

\* cleanup, noted in last
cleanup ==
    /\ Sweep
    /\ last' = Outcome("cleanup", TRUE, NoItem)

NextCache ==
    \/ Tick
    \/ \E c \in Cities, d \in Payloads : SetCurrentWeather(c, d)
    \/ \E c \in Cities, n \in CacheDays, d \in Payloads : SetForecast(c, n, d)
    \/ \E p \in Procs, c \in Cities : GetCurrentWeatherRead(p, c)
    \/ \E p \in Procs : GetCurrentWeatherCheck(p)
    \/ \E p \in Procs, c \in Cities, n \in CacheDays : GetForecastRead(p, c, n)
    \/ \E p \in Procs : GetForecastCheck(p)
    \/ cleanup


\* ------------------------------------------------------------- Aggregator
AggMaxTime == 2

Sources == {"openweathermap", "open-meteo"}
Callers == {"scheduler", "handler"}
SchedulerCities == {"Prague"}
RequestDays == {1, 4}
\* a specification follows this many city cycles (the counters are unbounded in the
\* code): MaxCycles in a refresh taken source by source, AggCycles next to the cache's
\* clock, RaceCycles side by side
MaxCycles == 2
AggCycles == 1
RaceCycles == 2
\* the days a forecast holds at most where two cycles run side by side
RaceDays == 2
Temps == {10}
FetchDays == 3

\* float64 division total / count, kept exact
Div(total, count) == [num |-> total, den |-> count]

RECURSIVE SumOver(_, _)
SumOver(f, S) ==
    IF S = {} THEN 0
    ELSE LET x == CHOOSE y \in S : TRUE IN f[x] + SumOver(f, S \ {x})

\* time.Time{}: the zero time, before every time a source or the clock reports
ZeroTime == 0

\* float64 arithmetic, kept exact: fractions with positive denominators
Rat(n, d) == [num |-> n, den |-> d]
RAdd(a, b) == Rat(a.num * b.den + b.num * a.den, a.den * b.den)
RSub(a, b) == Rat(a.num * b.den - b.num * a.den, a.den * b.den)
RMul(a, b) == Rat(a.num * b.num, a.den * b.den)
RLess(a, b) == a.num * b.den < b.num * a.den
REq(a, b) == a.num * b.den = b.num * a.den

RECURSIVE RSumOver(_, _)
RSumOver(f, S) ==
    IF S = {} THEN Rat(0, 1)
    ELSE LET x == CHOOSE y \in S : TRUE IN RAdd(f[x], RSumOver(f, S \ {x}))

\* models.CurrentWeather: one source's reading; the fields a source reports differ from
\* one another
Reading(t, ts) ==
    [temperature |-> t, feelsLike |-> t - 2, humidity |-> 40 + t, pressure |-> 1000 + t,
     windSpeed |-> 2 * t, timestamp |-> ts]
NoReading == Reading(0, ZeroTime)
Readings == {Reading(t, 1) : t \in Temps}

\* models.APIResponse: what one source's goroutine sends on the responses channel
APIResponse(hasCur, cur, hasFc, fc) ==
    [hasCurrent |-> hasCur, current |-> cur, hasForecast |-> hasFc, forecast |-> fc]

\* a source's GetCurrentWeather fails or returns a reading
CurrentOutcomes == {[ok |-> FALSE, current |-> NoReading]} \cup {[ok |-> TRUE, current |-> r] : r \in Readings}

\* the entries of a successful GetForecast(ctx, city, 3): "for i := 0; i < days &&
\* i < len(response.Daily.Time); i++", one per day of the API's answer, at most `days`
ForecastLengths == 0..FetchDays

ForecastOutcomes_Week ==
    {[ok |-> FALSE, forecast |-> <<>>]}
    \cup {[ok |-> TRUE, forecast |-> [i \in 1..n |-> t]] : n \in 0..7, t \in Temps}
\* a source's GetForecast(ctx, city, 3) fails, or returns as many days as the API's
\* answer holds, up to the three asked for
ForecastOutcomes ==
    {[ok |-> FALSE, forecast |-> <<>>]}
    \cup {[ok |-> TRUE, forecast |-> [i \in 1..n |-> t]] : n \in ForecastLengths, t \in Temps}

\* models.WeatherData built from the responses (fetchCityWeather, "Process responses")
WeatherData(city, resp) ==
    [city |-> city,
     current |-> [s \in {x \in DOMAIN resp : resp[x].hasCurrent} |-> resp[s].current],
     forecasts |-> [s \in {x \in DOMAIN resp : resp[x].hasForecast} |-> resp[s].forecast]]
NoWeatherData == [city |-> "", current |-> Emp, forecasts |-> Emp]

NoData == [city |-> "", sources |-> {}]

Variance_Sample(temps) ==
    LET n == Cardinality(DOMAIN temps)
        mean == Div(SumOver(temps, DOMAIN temps), n)
        sq == [s \in DOMAIN temps |-> RMul(RSub(Rat(temps[s], 1), mean), RSub(Rat(temps[s], 1), mean))]
    IN RMul(RSumOver(sq, DOMAIN temps), Rat(1, n - 1))
\* calculateConfidence: mean, then variance = sum of (temp - mean)^2 / len(temps)
Variance(temps) ==
    LET n == Cardinality(DOMAIN temps)
        mean == Div(SumOver(temps, DOMAIN temps), n)
        sq == [s \in DOMAIN temps |-> RMul(RSub(Rat(temps[s], 1), mean), RSub(Rat(temps[s], 1), mean))]
    IN RMul(RSumOver(sq, DOMAIN temps), Rat(1, n))

Clamp_NoUpper(x) == IF RLess(x, Rat(0, 1)) THEN Rat(0, 1) ELSE x
\* calculateConfidence: "if confidence > 1 { confidence = 1 }; if confidence < 0 { confidence = 0 }"
Clamp(x) ==
    IF RLess(Rat(1, 1), x) THEN Rat(1, 1)
    ELSE IF RLess(x, Rat(0, 1)) THEN Rat(0, 1)
    ELSE x

\* calculateConfidence
calculateConfidence(readings) ==
    IF Cardinality(DOMAIN readings) <= 1 THEN Rat(5, 10)
    ELSE LET temps == [s \in DOMAIN readings |-> readings[s].temperature]
             byMax == RMul(Variance(temps), Rat(1, 25))
             normalizedVariance == IF RLess(Rat(1, 1), byMax) THEN Rat(1, 1) ELSE byMax
             sourceBoost == Rat(Cardinality(DOMAIN readings) - 1, 10)
         IN Clamp(RAdd(RSub(Rat(1, 1), normalizedVariance), sourceBoost))

\* aggregateCurrentWeather: total / count of one field
Mean(cur, field) ==
    Div(SumOver([s \in DOMAIN cur |-> cur[s][field]], DOMAIN cur), Cardinality(DOMAIN cur))

\* aggregateCurrentWeather: latestTimestamp, raised from the zero time by every later reading
Latest(cur) ==
    LET T == {cur[s].timestamp : s \in DOMAIN cur} \cup {ZeroTime}
    IN CHOOSE m \in T : \A x \in T : x <= m

\* aggregateCurrentWeather
aggregateCurrentWeather(data) ==
    IF DOMAIN data.current = {} THEN NoData
    ELSE [city |-> data.city,
          temperature |-> Mean(data.current, "temperature"),
          feelsLike |-> Mean(data.current, "feelsLike"),
          humidity |-> Mean(data.current, "humidity"),
          pressure |-> Mean(data.current, "pressure"),
          windSpeed |-> Mean(data.current, "windSpeed"),
          lastUpdated |-> Latest(data.current),
          sources |-> DOMAIN data.current,
          confidence |-> calculateConfidence(data.current)]

Contributing_Longer(data, days) == {s \in DOMAIN data.forecasts : Len(data.forecasts[s]) > days}
\* aggregateForecast: "if len(forecast.Forecast) >= days"
Contributing(data, days) == {s \in DOMAIN data.forecasts : Len(data.forecasts[s]) >= days}

aggregateForecast_EmptyRecord(data, days) ==
    LET contributing == Contributing(data, days) IN
    [city |-> data.city,
     days |-> [d \in 1..days |->
                 Div(SumOver([s \in contributing |-> data.forecasts[s][d]], contributing),
                     Cardinality(contributing))],
     sources |-> contributing]
\* aggregateForecast
aggregateForecast(data, days) ==
    LET contributing == Contributing(data, days) IN
    IF DOMAIN data.forecasts = {} \/ contributing = {} THEN NoData
    ELSE [city |-> data.city,
          days |-> [d \in 1..days |->
                      Div(SumOver([s \in contributing |-> data.forecasts[s][d]], contributing),
                          Cardinality(contributing))],
          sources |-> contributing]

\* aggregateAndCache: "for days := 1; days <= 7; days++"
MaxDays == 7

\* aggregateAndCache, the loop over the day-counts: the possible forecast stores
RECURSIVE cacheForecasts(_, _, _, _, _)
cacheForecasts(cw, fc, data, days, t) ==
    IF days > MaxDays THEN {fc}
    ELSE IF aggregateForecast(data, days) = NoData THEN cacheForecasts(cw, fc, data, days + 1, t)
    ELSE UNION {cacheForecasts(cw, r.fc, data, days + 1, t) :
                  r \in SetForecastResults(cw, fc, data.city, days, aggregateForecast(data, days), t)}

\* a call that holds no cache item
NoRead == CacheItem(NoData, 0)

\* a GetAggregated* / FetchWeatherData call: pc is "check" between the RLock section of
\* the first cache Get and its expiry test, "miss" before FetchWeatherData, "fetch" while
\* FetchWeatherData runs, "reread" once it has returned, "recheck" between the RLock
\* section of the cache Get that follows and its expiry test; item is the CacheItem the
\* Get copied under RLock
NoCall == [op |-> "idle", pc |-> "idle", city |-> "", days |-> 0, cities |-> {}, errors |-> 0,
           item |-> NoRead]
\* a fetchCityWeather goroutine: pc is "tasks" while the sources are asked, "stored" once
\* a.weatherData[city] is written, "read" once aggregateAndCache has read it back,
\* "caching" from SetCurrentWeather on (day is the next day-count of the forecast
\* loop), "done" once the cycle is counted
NoCycle == [pc |-> "none", resp |-> Emp, err |-> "none", data |-> NoWeatherData, day |-> 0]
Returned(op, city, ok, err, hit, data) ==
    [op |-> op, city |-> city, ok |-> ok, err |-> err, hit |-> hit, data |-> data]

AggInit ==
    /\ weatherData = Emp
    /\ successCount = 0
    /\ failureCount = 0
    /\ lastFetchTime = 0
    /\ call = [k \in Callers |-> NoCall]
    /\ cyc = [k \in Callers |-> [c \in Cities |-> NoCycle]]
    /\ ret = Returned("init", "", FALSE, "none", FALSE, NoData)

\* city cycles started and not yet counted in successCount / failureCount
InFlight == Cardinality({x \in Callers \X Cities : cyc[x[1]][x[2]].pc \notin {"none", "done"}})
\* a specification follows max city cycles: a refresh of n cities starts while its
\* cycles fit
Budget(n, max) == successCount + failureCount + InFlight + n <= max

AggTick ==
    /\ now < AggMaxTime
    /\ now' = now + 1
    /\ UNCHANGED <<cacheVars, aggVars, cbVars, retryVars, schedVars, mergeVars, fanVars, lifeVars>>

Inc_Twice(n) == n + 2

\* a.successCount++, a.failureCount++ under a.mu
Inc(n) == n + 1

\* WeatherCache.GetCurrentWeather / GetForecast, the RLock section: the item under the
\* key, if there is one
Lookup(op, city, days) ==
    IF op = "GetAggregatedCurrentWeather"
    THEN IF city \in DOMAIN currentWeather
         THEN [exists |-> TRUE, item |-> currentWeather[city]]
         ELSE [exists |-> FALSE, item |-> NoRead]
    ELSE IF city \in DOMAIN forecast /\ days \in DOMAIN forecast[city]
         THEN [exists |-> TRUE, item |-> forecast[city][days]]
         ELSE [exists |-> FALSE, item |-> NoRead]

\* WeatherCache.GetCurrentWeather / GetForecast, the Lock section of an expired item:
\* delete(c.currentWeather, city) / delete(c.forecast[city], days), whatever the key
\* holds by now (a delete on a missing city is a no-op)
Evict(k) ==
    IF call[k].op = "GetAggregatedCurrentWeather"
    THEN /\ currentWeather' = Del(currentWeather, call[k].city)
         /\ UNCHANGED forecast
    ELSE /\ forecast' = IF call[k].city \in DOMAIN forecast
                        THEN [forecast EXCEPT ![call[k].city] = Del(@, call[k].days)]
                        ELSE forecast
         /\ UNCHANGED currentWeather

\* GetAggregated*, the RLock section of its first cache Get
Looking(k, op, city, days) ==
    LET r == Lookup(op, city, days) IN
    /\ call' = [call EXCEPT ![k] = [NoCall EXCEPT !.op = op, !.city = city, !.days = days,
                                                   !.item = r.item,
                                                   !.pc = IF r.exists THEN "check" ELSE "miss"]]
    /\ UNCHANGED <<cbVars, retryVars, schedVars, mergeVars, fanVars, lifeVars, now, cacheVars, weatherData, successCount, failureCount,
                   lastFetchTime, cyc, ret>>

CacheHit_Stamps(op, city, data) ==
    /\ ret' = Returned(op, city, TRUE, "none", TRUE, data)
    /\ lastFetchTime' = now + 1
    /\ UNCHANGED <<cbVars, retryVars, schedVars, mergeVars, fanVars, lifeVars, now, cacheVars, weatherData, successCount, failureCount, cyc>>

\* GetAggregated*: "if cached, ok := ...; ok { return cached, nil }"
CacheHit(op, city, data) ==
    /\ ret' = Returned(op, city, TRUE, "none", TRUE, data)
    /\ UNCHANGED <<cbVars, retryVars, schedVars, mergeVars, fanVars, lifeVars, now, cacheVars, weatherData, successCount, failureCount,
                   lastFetchTime, cyc>>

\* FetchWeatherData up to wg.Wait(): stamp lastFetchTime under a.mu, start one goroutine
\* per city
StartFetch(k, op, city, days, cs) ==
    /\ lastFetchTime' = now
    /\ call' = [call EXCEPT ![k] = [NoCall EXCEPT !.op = op, !.pc = "fetch", !.city = city,
                                                   !.days = days, !.cities = cs]]
    /\ cyc' = [cyc EXCEPT ![k] = [c \in Cities |->
                  IF c \in cs THEN [NoCycle EXCEPT !.pc = "tasks"]
                  ELSE NoCycle]]

\* FetchWeatherData called by the scheduler (Scheduler.runFetch) with its cities
FetchWeatherData(k) ==
    /\ k = "scheduler"
    /\ call[k] = NoCall
    /\ StartFetch(k, "FetchWeatherData", "", 0, cities)
    /\ UNCHANGED <<cbVars, retryVars, schedVars, mergeVars, fanVars, lifeVars, now, cacheVars, weatherData, successCount, failureCount, ret>>

\* GetAggregatedCurrentWeather: a.cache.GetCurrentWeather(city) reads the item
GetAggregatedCurrentWeather(k, city) ==
    /\ k = "handler"
    /\ call[k] = NoCall
    /\ Looking(k, "GetAggregatedCurrentWeather", city, 0)

\* GetAggregatedForecast: the check of days, then a.cache.GetForecast(city, days) reads
\* the item
GetAggregatedForecast(k, city, days) ==
    /\ k = "handler"
    /\ call[k] = NoCall
    /\ IF days < 1 \/ days > 7
       THEN /\ ret' = Returned("GetAggregatedForecast", city, FALSE, "days must be between 1 and 7",
                               FALSE, NoData)
            /\ UNCHANGED <<cbVars, retryVars, schedVars, mergeVars, fanVars, lifeVars, now, cacheVars, weatherData, successCount, failureCount,
                           lastFetchTime, call, cyc>>
       ELSE Looking(k, "GetAggregatedForecast", city, days)

\* the first cache Get after its RUnlock: an expired item is deleted under c.mu.Lock()
\* and the call goes on as a miss; any other item is the hit that is returned
CheckCached(k) ==
    /\ call[k].pc = "check"
    /\ IF Expired(call[k].item, now)
       THEN /\ Evict(k)
            /\ call' = [call EXCEPT ![k].pc = "miss", ![k].item = NoRead]
            /\ UNCHANGED <<cbVars, retryVars, schedVars, mergeVars, fanVars, lifeVars, now, get, last, weatherData, successCount, failureCount,
                           lastFetchTime, cyc, ret>>
       ELSE /\ CacheHit(call[k].op, call[k].city, call[k].item.data)
            /\ call' = [call EXCEPT ![k] = NoCall]

\* GetAggregated* after a miss: FetchWeatherData(fetchCtx, []string{city})
RefreshOnMiss(k) ==
    /\ call[k].pc = "miss"
    /\ StartFetch(k, call[k].op, call[k].city, call[k].days, {call[k].city})
    /\ UNCHANGED <<cbVars, retryVars, schedVars, mergeVars, fanVars, lifeVars, now, cacheVars, weatherData, successCount, failureCount, ret>>

Succeeded_AnyData(resp) == {s \in DOMAIN resp : resp[s].hasCurrent \/ resp[s].hasForecast}

\* the readings of the responses: "if response.Current != nil { ...; successCount++ }"
Succeeded(resp) == {s \in DOMAIN resp : resp[s].hasCurrent}

AllCallsFailed_Never(resp) == FALSE

\* fetchCityWeather: "if successCount == 0"
AllCallsFailed(resp) == Cardinality(Succeeded(resp)) = 0

\* fetchCityWeather after wg.Wait(): build the WeatherData from the responses; without a
\* reading return the error (FetchWeatherData: errors <- err; failureCount++ under a.mu),
\* else store it under a.mu
ProcessResponses(k, c, resp) ==
    IF AllCallsFailed(resp)
    THEN /\ cyc' = [cyc EXCEPT ![k][c].pc = "done", ![k][c].resp = resp,
                               ![k][c].err = "all API calls failed"]
         /\ call' = [call EXCEPT ![k].errors = @ + 1]
         /\ failureCount' = Inc(failureCount)
         /\ UNCHANGED weatherData
    ELSE /\ weatherData' = Put(weatherData, c, WeatherData(c, resp))
         /\ cyc' = [cyc EXCEPT ![k][c].pc = "stored", ![k][c].resp = resp]
         /\ UNCHANGED <<call, failureCount>>

\* what the source goroutines of one city can send on the responses channel
Responses ==
    {[s \in Sources |-> APIResponse(cur[s].ok, cur[s].current, fc[s].ok, fc[s].forecast)] :
        cur \in [Sources -> CurrentOutcomes], fc \in [Sources -> ForecastOutcomes]}

\* fetchCityWeather up to the store: every source's goroutine runs GetCurrentWeather and
\* GetForecast(3) and sends its response; after wg.Wait(), no reading -> error
\* (errors <- err; failureCount++), else a.weatherData[city] = weatherData
fetchCityWeather(k, c, resp) ==
    /\ cyc[k][c].pc = "tasks"
    /\ ProcessResponses(k, c, resp)
    /\ UNCHANGED <<cbVars, retryVars, schedVars, mergeVars, fanVars, lifeVars, now, cacheVars, successCount, lastFetchTime, ret>>

\* aggregateAndCache: weatherData, exists := a.weatherData[city] under RLock
ReadWeatherData(k, c) ==
    /\ cyc[k][c].pc = "stored"
    /\ cyc' = [cyc EXCEPT ![k][c].pc = "read",
                          ![k][c].data = IF c \in DOMAIN weatherData THEN weatherData[c]
                                         ELSE NoWeatherData]
    /\ UNCHANGED <<cbVars, retryVars, schedVars, mergeVars, fanVars, lifeVars, now, cacheVars, weatherData, successCount, failureCount, lastFetchTime, call, ret>>

\* aggregateAndCache after the read: a.cache.SetCurrentWeather(city, aggregatedCurrent);
\* without a reading in the snapshot it returns at once, and the cycle is counted
aggregateAndCache(k, c) ==
    /\ cyc[k][c].pc = "read"
    /\ IF DOMAIN cyc[k][c].data.current = {}
       THEN /\ successCount' = Inc(successCount)
            /\ cyc' = [cyc EXCEPT ![k][c].pc = "done"]
            /\ UNCHANGED currentWeather
       ELSE /\ \E r \in SetCurrentWeatherResults(currentWeather, c,
                                                 aggregateCurrentWeather(cyc[k][c].data), now) :
                   currentWeather' = r.cw
            /\ cyc' = [cyc EXCEPT ![k][c].pc = "caching", ![k][c].day = 1]
            /\ UNCHANGED successCount
    /\ UNCHANGED <<cbVars, retryVars, schedVars, mergeVars, fanVars, lifeVars, now, forecast, get, last, weatherData, failureCount, lastFetchTime, call, ret>>

\* aggregateAndCache, the loop: the day-counts from `from` on whose aggregateForecast is
\* not nil
DaysToCache(data, from) == {d \in from..MaxDays : aggregateForecast(data, d) # NoData}

\* aggregateAndCache, the loop: the next a.cache.SetForecast(city, days, aggregatedForecast)
cacheForecastDay(k, c) ==
    /\ cyc[k][c].pc = "caching"
    /\ DaysToCache(cyc[k][c].data, cyc[k][c].day) # {}
    /\ LET days == CHOOSE d \in DaysToCache(cyc[k][c].data, cyc[k][c].day) :
                      \A e \in DaysToCache(cyc[k][c].data, cyc[k][c].day) : d <= e
       IN /\ \E r \in SetForecastResults(currentWeather, forecast, c, days,
                                         aggregateForecast(cyc[k][c].data, days), now) :
                 forecast' = r.fc
          /\ cyc' = [cyc EXCEPT ![k][c].day = days + 1]
    /\ UNCHANGED <<cbVars, retryVars, schedVars, mergeVars, fanVars, lifeVars, now, currentWeather, get, last, weatherData, successCount, failureCount,
                   lastFetchTime, call, ret>>

\* the loop is over, fetchCityWeather returns nil: a.successCount++ under a.mu
countSuccess(k, c) ==
    /\ cyc[k][c].pc = "caching"
    /\ DaysToCache(cyc[k][c].data, cyc[k][c].day) = {}
    /\ successCount' = Inc(successCount)
    /\ cyc' = [cyc EXCEPT ![k][c].pc = "done"]
    /\ UNCHANGED <<cbVars, retryVars, schedVars, mergeVars, fanVars, lifeVars, now, cacheVars, weatherData, failureCount, lastFetchTime, call, ret>>

FetchError_Never(k) == FALSE

\* FetchWeatherData after wg.Wait(): error iff the errors channel holds an error
FetchError(k) == call[k].errors > 0

AllCitiesDone_Any(k) == \E c \in call[k].cities : cyc[k][c].pc = "done"

\* FetchWeatherData: wg.Wait() returns once every city goroutine has called wg.Done()
AllCitiesDone(k) == \A c \in call[k].cities : cyc[k][c].pc = "done"

\* the call of caller k is over
Ending(k) ==
    /\ call' = [call EXCEPT ![k] = NoCall]
    /\ cyc' = [cyc EXCEPT ![k] = [c \in Cities |-> NoCycle]]

\* wg.Wait() returned: FetchWeatherData returns. Its caller runFetch is done; a
\* GetAggregated* caller returns the fetch error or goes on to read the cache again
Return(k) ==
    /\ call[k].pc = "fetch"
    /\ AllCitiesDone(k)
    /\ IF call[k].op = "FetchWeatherData"
       THEN /\ ret' = Returned("FetchWeatherData", "", ~FetchError(k),
                               IF FetchError(k) THEN "some cities failed" ELSE "none", FALSE, NoData)
            /\ Ending(k)
       ELSE IF FetchError(k)
       THEN /\ ret' = Returned(call[k].op, call[k].city, FALSE, "failed to fetch", FALSE, NoData)
            /\ Ending(k)
       ELSE /\ call' = [call EXCEPT ![k].pc = "reread"]
            /\ UNCHANGED <<ret, cyc>>
    /\ UNCHANGED <<cbVars, retryVars, schedVars, mergeVars, fanVars, lifeVars, now, cacheVars, weatherData, successCount, failureCount, lastFetchTime>>

\* the cache Get after the fetch, its RLock section: without an item under the key the
\* call fails as not available
Reread(k) ==
    /\ call[k].pc = "reread"
    /\ IF ~Lookup(call[k].op, call[k].city, call[k].days).exists
       THEN /\ ret' = Returned(call[k].op, call[k].city, FALSE, "not available", FALSE, NoData)
            /\ Ending(k)
       ELSE /\ call' = [call EXCEPT ![k].pc = "recheck",
                                    ![k].item = Lookup(call[k].op, call[k].city, call[k].days).item]
            /\ UNCHANGED <<ret, cyc>>
    /\ UNCHANGED <<cbVars, retryVars, schedVars, mergeVars, fanVars, lifeVars, now, cacheVars, weatherData, successCount, failureCount, lastFetchTime>>

\* the cache Get after the fetch, after its RUnlock: an expired item is deleted under
\* c.mu.Lock() and the call fails as not available; any other item is returned
Recheck(k) ==
    /\ call[k].pc = "recheck"
    /\ IF Expired(call[k].item, now)
       THEN /\ Evict(k)
            /\ ret' = Returned(call[k].op, call[k].city, FALSE, "not available", FALSE, NoData)
       ELSE /\ ret' = Returned(call[k].op, call[k].city, TRUE, "none", FALSE, call[k].item.data)
            /\ UNCHANGED <<currentWeather, forecast>>
    /\ Ending(k)
    /\ UNCHANGED <<cbVars, retryVars, schedVars, mergeVars, fanVars, lifeVars, now, get, last, weatherData, successCount, failureCount, lastFetchTime>>

\* The calls of both callers, one city cycle at a time, with the cache's clock and
\* its sweeps. The handler asks for the city the scheduler refreshes.
RequestCities == SchedulerCities

NextAgg ==
    \/ AggTick
    \/ Sweep /\ UNCHANGED last
    \/ \E k \in Callers : Budget(Cardinality(cities), AggCycles) /\ FetchWeatherData(k)
    \/ \E k \in Callers, c \in RequestCities : GetAggregatedCurrentWeather(k, c)
    \/ \E k \in Callers, c \in RequestCities, n \in RequestDays : GetAggregatedForecast(k, c, n)
    \/ \E k \in Callers : CheckCached(k)
    \/ \E k \in Callers : Budget(1, AggCycles) /\ RefreshOnMiss(k)
    \/ \E k \in Callers, c \in Cities, resp \in Responses : fetchCityWeather(k, c, resp)
    \/ \E k \in Callers, c \in Cities : ReadWeatherData(k, c)
    \/ \E k \in Callers, c \in Cities : aggregateAndCache(k, c)
    \/ \E k \in Callers, c \in Cities : cacheForecastDay(k, c)
    \/ \E k \in Callers, c \in Cities : countSuccess(k, c)
    \/ \E k \in Callers : Return(k)
    \/ \E k \in Callers : Reread(k)
    \/ \E k \in Callers : Recheck(k)


\* ------------------------------------------- BaseClient circuit breaker
BreakerMaxTime == 2
MaxCalls == 4

\* breakerSettings: MaxRequests, Timeout (config.BreakerTimeout), Interval
MaxRequests == 1
breakerTimeout == 1
Interval == 0

\* gobreaker.Counts
Counts(r, ts, tf, cs, cf) ==
    [requests |-> r, totalSuccesses |-> ts, totalFailures |-> tf,
     consecutiveSuccesses |-> cs, consecutiveFailures |-> cf]
NoCounts == Counts(0, 0, 0, 0, 0)

ReadyToTrip_FourRequests(counts) ==
    counts.requests >= 4 /\ 10 * counts.totalFailures >= 6 * counts.requests

\* breakerSettings.ReadyToTrip: Requests >= 3 && TotalFailures / Requests >= 0.6
ReadyToTrip(counts) ==
    counts.requests >= 3 /\ 10 * counts.totalFailures >= 6 * counts.requests

NewExpiry_NoTimeout(state, t) ==
    CASE state = "closed" -> IF Interval = 0 THEN ZeroTime ELSE t + Interval
      [] state = "open" -> t
      [] state = "half-open" -> ZeroTime
\* Execute -> toNewGeneration: the expiry of a state entered at time t
NewExpiry(state, t) ==
    CASE state = "closed" -> IF Interval = 0 THEN ZeroTime ELSE t + Interval
      [] state = "open" -> t + breakerTimeout
      [] state = "half-open" -> ZeroTime

\* Execute -> currentState(now): the breaker [state, counts, generation, expiry] as of time t
CurrentState(t) ==
    LET cur == [state |-> cbState, counts |-> cbCounts,
                generation |-> cbGeneration, expiry |-> cbExpiry] IN
    CASE cbState = "closed" /\ cbExpiry # ZeroTime /\ cbExpiry < t ->
             [cur EXCEPT !.counts = NoCounts, !.generation = @ + 1,
                         !.expiry = NewExpiry("closed", t)]
      [] cbState = "open" /\ cbExpiry < t ->
             [state |-> "half-open", counts |-> NoCounts,
              generation |-> cbGeneration + 1, expiry |-> NewExpiry("half-open", t)]
      [] OTHER -> cur

\* Execute -> setState(state, now)
SetState(cur, state, t) ==
    [state |-> state, counts |-> NoCounts, generation |-> cur.generation + 1,
     expiry |-> NewExpiry(state, t)]

Install(b) ==
    /\ cbState' = b.state
    /\ cbCounts' = b.counts
    /\ cbGeneration' = b.generation
    /\ cbExpiry' = b.expiry

NoRequest == [pc |-> "idle", generation |-> 0]

BreakerInit ==
    /\ cbState = "closed"
    /\ cbCounts = NoCounts
    /\ cbGeneration = 0
    /\ cbExpiry = ZeroTime
    /\ req = [p \in Procs |-> NoRequest]
    /\ cbRet = [proc |-> "", err |-> "none"]

\* doGetWithRetry's locals: attempt, lastErr and what it returned (err, body); transports
\* counts the c.client.Do calls, waits lists the backoff delays it started, deadline is when
\* the current time.After fires, cancelled tells that ctx.Done() is closed, got is what
\* the transport gave to the latest attempt and only5xx that it gave every attempt so
\* far a response with a 5xx status
NoOutcome == [reqErr |-> FALSE, err |-> FALSE, status |-> 0, readOK |-> FALSE, body |-> "none"]
NoFetch == [pc |-> "idle", attempt |-> 0, transports |-> 0, waits |-> << >>, deadline |-> 0,
            lastErr |-> "none", err |-> "none", body |-> "none", cancelled |-> FALSE,
            got |-> NoOutcome, only5xx |-> TRUE]

RetryInit ==
    /\ multiplier = 0
    /\ retryDelay = 0
    /\ fetch = [p \in Procs |-> NoFetch]


\* ---------------------------------------------------------------- Scheduler
SchedMaxTime == 3
MaxPending == 1
MaxInFlight == 1
MaxExiting == 2
interval == 2
Triggers == {"start", "tick", "force"}
\* the lists UpdateCities is called with
CityLists == {SchedulerCities, Cities}

NoLastRun == [zero |-> TRUE, at |-> 0]
\* no run goroutine is between its receive from s.stop and its s.ticker.Stop(); same
\* counts those whose ticker is still s.ticker, replaced those that a later Start has
\* given a new s.ticker to read
NoneExiting == [same |-> 0, replaced |-> 0]
NoTime == -1

\* NewScheduler: stopped, no ticker, lastRun the zero time
SchedInit ==
    /\ running = FALSE
    /\ ticker = [on |-> FALSE, next |-> 0]
    /\ tickPending = FALSE
    /\ runLoop = "none"
    /\ exiting = NoneExiting
    /\ lastRun = NoLastRun
    /\ pending = [s \in Triggers |-> 0]
    /\ cycles = [s \in Triggers |-> 0]
    /\ evt = [op |-> "init", src |-> "", started |-> FALSE, sched |-> NoTime, cities |-> {}]
    /\ cities = SchedulerCities
    /\ handing = [s \in Triggers |-> 0]

\* no snapshot has been handed to the aggregation functions yet
NoResult == [called |-> FALSE, days |-> 0, res |-> NoData]
MergeInit ==
    /\ snap = NoWeatherData
    /\ mcur = NoResult
    /\ mfc = NoResult

\* fetchCityWeather has started no source goroutine yet
NoTask == [pc |-> "idle", resp |-> APIResponse(FALSE, NoReading, FALSE, <<>>),
           nCurrent |-> 0, nForecast |-> 0, days |-> 0]
\* context.WithTimeout of the caller: the deadline has not passed; once it has, pending
\* are the cities with source calls outstanding at that instant and aggregated those
\* whose cycle was over
NoDeadline == [expired |-> FALSE, pending |-> {}, aggregated |-> {}]
FanInit ==
    /\ task = [c \in Cities |-> [s \in Sources |-> NoTask]]
    /\ deadline = NoDeadline

\* the goroutines that call Scheduler.Start, Scheduler.Stop and Scheduler.GetStatus
Starters == {"main"}
Stoppers == {"shutdown"}
Watchers == {"status"}
SchedCallers == Starters \cup Stoppers \cup Watchers

\* nobody holds Scheduler.mu, no call of the scheduler is in progress
LifeInit ==
    /\ mu = "free"
    /\ pos = [g \in SchedCallers |-> "idle"]

\* a FetchWeatherData call is followed for lists of up to TermCities cities and
\* forecasts of up to TermDays days
TermCities == 2
TermDays == 1

\* sync.RWMutex: how many readers hold it, and whether a writer has come through the
\* mutex of the writers (rw.w): "none" has, one "waits" for the readers to leave, or
\* one "holds" the lock
FreeMutex == [writer |-> "none", readers |-> 0]

\* no FetchWeatherData call of this caller is in progress; in a call, n is len(cities)
\* and errors the number of errors in its errors channel
NoRefresh == [pc |-> "idle", n |-> 0, errors |-> 0]
\* the goroutine of one city of a call: where it is; at a lock section, whether it is
\* about to "call" Lock() or RLock() (or is in Lock(), at the mutex of the writers),
\* has to "wait" (a writer for the readers to leave, a reader for the writer's
\* Unlock()) or is "in" the section; how many source goroutines have sent on its
\* responses channel; how many day-counts it has yet to cache
NoGoroutine == [pc |-> "none", st |-> "call", sent |-> 0, days |-> 0]

TermInit ==
    /\ amu = FreeMutex
    /\ cmu = FreeMutex
    /\ rf = [k \in Callers |-> NoRefresh]
    /\ cg = [k \in Callers |-> [i \in 1..TermCities |-> NoGoroutine]]
    /\ gs = "idle"
    /\ sweep = "idle"
    /\ cget = "idle"

Init == CacheInit /\ AggInit /\ BreakerInit /\ RetryInit /\ SchedInit /\ MergeInit /\ FanInit
        /\ LifeInit /\ TermInit

BreakerTick ==
    /\ now < BreakerMaxTime
    /\ now' = now + 1
    /\ UNCHANGED <<cacheVars, aggVars, cbVars, retryVars, schedVars, mergeVars, fanVars, lifeVars>>

\* GetWithRetry up to the call of doGetWithRetry: Execute's beforeRequest rejects the call
\* (breaker open, or half-open with MaxRequests requests admitted) or counts it as a request
BeforeRequest(p) ==
    /\ req[p] = NoRequest
    /\ cbCounts.requests < MaxCalls
    /\ LET b == CurrentState(now) IN
       IF b.state = "open"
       THEN /\ Install(b)
            /\ cbRet' = [proc |-> p, err |-> "circuit breaker is open"]
            /\ UNCHANGED req
       ELSE IF b.state = "half-open" /\ b.counts.requests >= MaxRequests
       THEN /\ Install(b)
            /\ cbRet' = [proc |-> p, err |-> "too many requests"]
            /\ UNCHANGED req
       ELSE /\ Install([b EXCEPT !.counts.requests = @ + 1])
            /\ req' = [req EXCEPT ![p] = [pc |-> "doGetWithRetry", generation |-> b.generation]]
            /\ UNCHANGED cbRet
    /\ UNCHANGED <<now, cacheVars, aggVars, schedVars, mergeVars, fanVars, lifeVars>>

\* Execute's afterRequest once doGetWithRetry returned err (err == nil is a success)
AfterRequest(p, err) ==
    /\ req[p].pc = "doGetWithRetry"
    /\ LET b == CurrentState(now)
           c == b.counts
           success == err = "none"
       IN
       IF b.generation # req[p].generation THEN Install(b)
       ELSE IF success
       THEN LET c1 == [c EXCEPT !.totalSuccesses = @ + 1, !.consecutiveSuccesses = @ + 1,
                                !.consecutiveFailures = 0] IN
            IF b.state = "half-open" /\ c1.consecutiveSuccesses >= MaxRequests
            THEN Install(SetState(b, "closed", now))
            ELSE Install([b EXCEPT !.counts = c1])
       ELSE LET c1 == [c EXCEPT !.totalFailures = @ + 1, !.consecutiveFailures = @ + 1,
                                !.consecutiveSuccesses = 0] IN
            IF b.state = "half-open" \/ (b.state = "closed" /\ ReadyToTrip(c1))
            THEN Install(SetState(b, "open", now))
            ELSE Install([b EXCEPT !.counts = c1])
    /\ req' = [req EXCEPT ![p] = NoRequest]
    /\ cbRet' = [proc |-> p, err |-> err]
    /\ UNCHANGED <<now, cacheVars, aggVars, schedVars, mergeVars, fanVars, lifeVars>>

NextBreaker ==
    \/ BreakerTick
    \/ \E p \in Procs : BeforeRequest(p) /\ UNCHANGED retryVars
    \/ \E p \in Procs, err \in {"none", "max retries exceeded"} :
          AfterRequest(p, err) /\ UNCHANGED retryVars

SpecBreaker == Init /\ [][NextBreaker]_vars

\* ------------------------------------------- BaseClient.doGetWithRetry
RetryMaxTime == 7
maxRetries == 2
\* config.Multiplier and config.RetryDelay come from RETRY_MULTIPLIER and RETRY_DELAY
\* unvalidated; parseDuration gives 0 for a value it cannot parse
MaxDelay == 1
Multipliers == {1, 2}
RetryDelays == 0..MaxDelay
Statuses == {200, 404, 429, 500, 503}
Bodies == {"b1"}
\* doGetWithRetry shares nothing between goroutines: one caller shows all of it
Fetchers == {"g1"}

RECURSIVE Pow(_, _)
Pow(b, e) == IF e = 0 THEN 1 ELSE b * Pow(b, e - 1)

Backoff_FromAttempt(attempt) == retryDelay * Pow(multiplier, attempt)
\* time.Duration(float64(c.retryDelay) * math.Pow(c.multiplier, float64(attempt-1)))
Backoff(attempt) == retryDelay * Pow(multiplier, attempt - 1)

\* what http.NewRequestWithContext, c.client.Do and io.ReadAll give for one pass of the
\* loop: no request (reqErr), a transport error, or a response with a status whose body
\* can (readOK) or cannot be read
DoOutcomes ==
    {[reqErr |-> TRUE, err |-> FALSE, status |-> 0, readOK |-> FALSE, body |-> "none"]}
    \cup {[reqErr |-> FALSE, err |-> TRUE, status |-> 0, readOK |-> FALSE, body |-> "none"]}
    \cup {[reqErr |-> FALSE, err |-> FALSE, status |-> s, readOK |-> TRUE, body |-> b] :
             s \in Statuses, b \in Bodies}
    \cup {[reqErr |-> FALSE, err |-> FALSE, status |-> 200, readOK |-> FALSE, body |-> "none"]}

\* fmt.Errorf("HTTP %d", resp.StatusCode)
HTTPError(status) == "HTTP " \o ToString(status)

Retryable_All(status) == TRUE
\* the loop goes on after a non-2xx status unless it is a 4xx other than 429
Retryable(status) == ~(status >= 400 /\ status < 500 /\ status # 429)

\* return nil, fmt.Errorf("max retries exceeded, last error: %w", lastErr)
Exhausted(f) == [f EXCEPT !.pc = "done", !.err = "max retries exceeded"]

NextAttempt_ExtraRetry(f, t) ==
    IF f.attempt + 1 > maxRetries + 1 THEN Exhausted(f)
    ELSE IF f.cancelled /\ Backoff(f.attempt + 1) > 0
    THEN [f EXCEPT !.attempt = @ + 1, !.pc = "done", !.err = "context canceled"]
    ELSE [f EXCEPT !.attempt = @ + 1, !.pc = "wait",
                   !.waits = Append(@, Backoff(f.attempt + 1)),
                   !.deadline = t + Backoff(f.attempt + 1)]
\* `continue` or the end of the loop body: attempt++, then either the loop ends or the
\* select on ctx.Done() and time.After(delay) is entered; with ctx.Done() closed and a
\* delay that is not positive both cases are ready and the select is left to CtxDone or
\* TimerFire
NextAttempt(f, t) ==
    IF f.attempt + 1 > maxRetries THEN Exhausted(f)
    ELSE IF f.cancelled /\ Backoff(f.attempt + 1) > 0
    THEN [f EXCEPT !.attempt = @ + 1, !.pc = "done", !.err = "context canceled"]
    ELSE [f EXCEPT !.attempt = @ + 1, !.pc = "wait",
                   !.waits = Append(@, Backoff(f.attempt + 1)),
                   !.deadline = t + Backoff(f.attempt + 1)]

\* one pass of the loop body from http.NewRequestWithContext on, with o what the
\* request constructor and the transport gave; without a request doGetWithRetry returns
\* "creating request failed" before any c.client.Do
Attempt(f, o, t) ==
    LET g == [f EXCEPT !.transports = @ + 1, !.got = o,
                       !.only5xx = @ /\ ~o.err /\ o.status >= 500] IN
    IF o.reqErr THEN [f EXCEPT !.pc = "done", !.err = "creating request failed"]
    ELSE IF o.err THEN NextAttempt([g EXCEPT !.lastErr = "transport error"], t)
    ELSE IF o.status >= 200 /\ o.status < 300
    THEN IF o.readOK THEN [g EXCEPT !.pc = "done", !.body = o.body]
         ELSE NextAttempt([g EXCEPT !.lastErr = "read error"], t)
    ELSE IF Retryable(o.status)
    THEN NextAttempt([g EXCEPT !.lastErr = HTTPError(o.status)], t)
    ELSE Exhausted([g EXCEPT !.lastErr = HTTPError(o.status)])

\* NewBaseClient with config.Multiplier = m and config.RetryDelay = d
NewBaseClient(m, d) ==
    /\ multiplier = 0
    /\ multiplier' = m
    /\ retryDelay' = d
    /\ UNCHANGED <<now, cacheVars, aggVars, cbVars, fetch, schedVars, mergeVars, fanVars, lifeVars>>

GetWithRetry_AlwaysFetch(p) ==
    /\ multiplier # 0
    /\ fetch[p] = NoFetch
    /\ BeforeRequest(p)
    /\ fetch' = [fetch EXCEPT ![p] = [NoFetch EXCEPT !.pc = "attempt"]]
    /\ UNCHANGED <<multiplier, retryDelay>>
\* GetWithRetry: Execute either rejects the call or calls doGetWithRetry
GetWithRetry(p) ==
    /\ multiplier # 0
    /\ fetch[p] = NoFetch
    /\ BeforeRequest(p)
    /\ fetch' = [fetch EXCEPT ![p] = IF req'[p] = NoRequest THEN NoFetch
                                     ELSE [NoFetch EXCEPT !.pc = "attempt"]]
    /\ UNCHANGED <<multiplier, retryDelay>>

Transport_CountsAttempt(p, o) ==
    /\ fetch[p].pc = "attempt"
    /\ o.reqErr => fetch[p].attempt = 0
    /\ (fetch[p].cancelled /\ ~o.reqErr) => o.err
    /\ fetch' = [fetch EXCEPT ![p] = Attempt(@, o, now)]
    /\ cbCounts' = [cbCounts EXCEPT !.requests = @ + 1]
    /\ UNCHANGED <<cbState, cbGeneration, cbExpiry, req, cbRet>>
    /\ UNCHANGED <<now, cacheVars, aggVars, multiplier, retryDelay, schedVars, mergeVars, fanVars, lifeVars>>
\* http.NewRequestWithContext and c.client.Do(req) of the current attempt and the rest of
\* the loop body; the constructor gets the same arguments in every pass, so it fails in
\* the first pass or in none; a Do with a cancelled context returns an error
Transport(p, o) ==
    /\ fetch[p].pc = "attempt"
    /\ o.reqErr => fetch[p].attempt = 0
    /\ (fetch[p].cancelled /\ ~o.reqErr) => o.err
    /\ fetch' = [fetch EXCEPT ![p] = Attempt(@, o, now)]
    /\ UNCHANGED <<now, cacheVars, aggVars, cbVars, multiplier, retryDelay, schedVars, mergeVars, fanVars, lifeVars>>

\* case <-time.After(delay): the timer is spent
TimerFire(p) ==
    /\ fetch[p].pc = "wait"
    /\ now >= fetch[p].deadline
    /\ fetch' = [fetch EXCEPT ![p] = [@ EXCEPT !.pc = "attempt", !.deadline = 0]]
    /\ UNCHANGED <<now, cacheVars, aggVars, cbVars, multiplier, retryDelay, schedVars, mergeVars, fanVars, lifeVars>>

\* case <-ctx.Done(), taken by a select whose timer is due as well
CtxDone(p) ==
    /\ fetch[p].pc = "wait"
    /\ fetch[p].cancelled
    /\ fetch' = [fetch EXCEPT ![p] = [@ EXCEPT !.pc = "done", !.err = "context canceled"]]
    /\ UNCHANGED <<now, cacheVars, aggVars, cbVars, multiplier, retryDelay, schedVars, mergeVars, fanVars, lifeVars>>

Cancel_KeepsWaiting(p) ==
    /\ fetch[p].pc \in {"attempt", "wait"}
    /\ ~fetch[p].cancelled
    /\ fetch' = [fetch EXCEPT ![p] = [@ EXCEPT !.cancelled = TRUE]]
    /\ UNCHANGED <<now, cacheVars, aggVars, cbVars, multiplier, retryDelay, schedVars, mergeVars, fanVars, lifeVars>>
\* the caller cancels ctx; a select still waiting for its timer takes case <-ctx.Done(),
\* one whose timer is due has both cases ready
Cancel(p) ==
    /\ fetch[p].pc \in {"attempt", "wait"}
    /\ ~fetch[p].cancelled
    /\ fetch' = [fetch EXCEPT ![p] =
                   IF @.pc = "wait" /\ now < @.deadline
                   THEN [@ EXCEPT !.cancelled = TRUE, !.pc = "done", !.err = "context canceled"]
                   ELSE [@ EXCEPT !.cancelled = TRUE]]
    /\ UNCHANGED <<now, cacheVars, aggVars, cbVars, multiplier, retryDelay, schedVars, mergeVars, fanVars, lifeVars>>

\* doGetWithRetry returned: Execute's afterRequest, then GetWithRetry returns
ReturnFetch(p) ==
    /\ fetch[p].pc = "done"
    /\ AfterRequest(p, fetch[p].err)
    /\ fetch' = [fetch EXCEPT ![p] = NoFetch]
    /\ UNCHANGED <<multiplier, retryDelay>>

\* doGetWithRetry called on its own, and its return
doGetWithRetry(p) ==
    /\ multiplier # 0
    /\ fetch[p] = NoFetch
    /\ fetch' = [fetch EXCEPT ![p] = [NoFetch EXCEPT !.pc = "attempt"]]
    /\ UNCHANGED <<now, cacheVars, aggVars, cbVars, multiplier, retryDelay, schedVars, mergeVars, fanVars, lifeVars>>

ReturnRetry(p) ==
    /\ fetch[p].pc = "done"
    /\ fetch' = [fetch EXCEPT ![p] = NoFetch]
    /\ UNCHANGED <<now, cacheVars, aggVars, cbVars, multiplier, retryDelay, schedVars, mergeVars, fanVars, lifeVars>>

RetryTick ==
    /\ now < RetryMaxTime
    /\ now' = now + 1
    /\ UNCHANGED <<cacheVars, aggVars, cbVars, retryVars, schedVars, mergeVars, fanVars, lifeVars>>

NextRetry ==
    \/ RetryTick
    \/ \E m \in Multipliers, d \in RetryDelays : NewBaseClient(m, d)
    \/ \E p \in Fetchers : doGetWithRetry(p)
    \/ \E p \in Fetchers, o \in DoOutcomes : Transport(p, o)
    \/ \E p \in Fetchers : TimerFire(p)
    \/ \E p \in Fetchers : Cancel(p)
    \/ \E p \in Fetchers : CtxDone(p)
    \/ \E p \in Fetchers : ReturnRetry(p)

SpecRetry == Init /\ [][NextRetry]_vars

\* The breaker is checked around clients whose retries take time: with a delay of 0 a
\* call makes all its attempts at one instant, whatever the breaker does meanwhile
ClientMinDelay == 1
ClientDelays == ClientMinDelay..MaxDelay

NextClient ==
    \/ BreakerTick
    \/ \E m \in Multipliers, d \in ClientDelays : NewBaseClient(m, d)
    \/ \E p \in Procs : GetWithRetry(p)
    \/ \E p \in Procs, o \in DoOutcomes : Transport(p, o)
    \/ \E p \in Procs : TimerFire(p)
    \/ \E p \in Procs : Cancel(p)
    \/ \E p \in Procs : CtxDone(p)
    \/ \E p \in Procs : ReturnFetch(p)

SpecClient == Init /\ [][NextClient]_vars

\* `go s.runFetch()`
Spawn(src) == [pending EXCEPT ![src] = @ + 1]

\* Start, Stop and GetStatus step by step: pos[g] is "idle" outside a call, "lock" while
\* the caller waits for s.mu, "spawn" in Start after its Unlock, "send" in Stop while it
\* is blocked in `s.stop <- true` (holding s.mu), "sent" once the run loop has received.

\* time passes; a running ticker whose period ends puts a tick into ticker.C (a channel
\* of capacity one: a tick nobody has taken yet is not duplicated)
SchedTick ==
    /\ now < SchedMaxTime
    /\ now' = now + 1
    /\ IF ticker.on /\ ticker.next = now + 1
       THEN /\ tickPending' = TRUE
            /\ ticker' = [ticker EXCEPT !.next = @ + interval]
       ELSE UNCHANGED <<tickPending, ticker>>
    /\ UNCHANGED <<cities, handing, running, runLoop, exiting, lastRun, pending, cycles, evt>>
    /\ UNCHANGED <<cacheVars, aggVars, cbVars, retryVars, mergeVars, fanVars, lifeVars>>

\* a goroutine calls Start, Stop or GetStatus: s.mu.Lock() comes first
Enter(g) ==
    /\ pos[g] = "idle"
    /\ g \in Starters => pending["start"] < MaxPending
    /\ g \in Stoppers => exiting.same + exiting.replaced < MaxExiting
    /\ pos' = [pos EXCEPT ![g] = "lock"]
    /\ UNCHANGED <<mu, termVars>>
    /\ UNCHANGED <<now, cacheVars, aggVars, cbVars, retryVars, schedVars, mergeVars, fanVars>>

\* Scheduler.Start under the mutex: return if running, else running = true and Unlock
Starting(g) ==
    /\ g \in Starters
    /\ pos[g] = "lock"
    /\ mu = "free"
    /\ IF running
       THEN /\ pos' = [pos EXCEPT ![g] = "idle"]
            /\ UNCHANGED running
       ELSE /\ running' = TRUE
            /\ pos' = [pos EXCEPT ![g] = "spawn"]
    /\ UNCHANGED <<cities, handing, ticker, tickPending, runLoop, exiting, lastRun, pending, cycles>>
    /\ UNCHANGED <<mu, termVars>>
    /\ UNCHANGED <<now, cacheVars, aggVars, cbVars, retryVars, mergeVars, fanVars>>

\* Scheduler.Start under the mutex, noted in evt: whether it found the scheduler stopped;
\* a new run has no scheduled cycle yet
Start(g) ==
    /\ Starting(g)
    /\ evt' = [op |-> "Start", src |-> "", started |-> ~running,
               sched |-> IF running THEN evt.sched ELSE NoTime, cities |-> {}]

StartLocked(g) ==
    /\ Starting(g)
    /\ UNCHANGED evt

\* Scheduler.Start after the Unlock: s.ticker = time.NewTicker(s.interval),
\* go s.runFetch(), go s.run()
StartSpawn(g) ==
    /\ g \in Starters
    /\ pos[g] = "spawn"
    /\ ticker' = [on |-> TRUE, next |-> now + interval]
    /\ tickPending' = FALSE
    /\ pending' = Spawn("start")
    /\ runLoop' = "select"
    /\ exiting' = [same |-> 0, replaced |-> exiting.replaced + exiting.same]
    /\ pos' = [pos EXCEPT ![g] = "idle"]
    /\ UNCHANGED <<cities, handing, running, lastRun, cycles, evt>>
    /\ UNCHANGED <<mu, termVars>>
    /\ UNCHANGED <<now, cacheVars, aggVars, cbVars, retryVars, mergeVars, fanVars>>

\* Scheduler.run, case <-s.ticker.C: go s.runFetch()
Ticked ==
    /\ runLoop = "select"
    /\ tickPending
    /\ pending["tick"] < MaxPending
    /\ tickPending' = FALSE
    /\ pending' = Spawn("tick")
    /\ UNCHANGED <<cities, handing, running, ticker, runLoop, exiting, lastRun, cycles>>
    /\ UNCHANGED <<now, cacheVars, aggVars, cbVars, retryVars, mergeVars, fanVars, lifeVars>>

\* Scheduler.run, case <-s.ticker.C, noted in evt
RunTick ==
    /\ Ticked
    /\ evt' = [op |-> "tick", src |-> "tick", started |-> FALSE, sched |-> evt.sched,
               cities |-> {}]

\* Scheduler.Stop: s.mu.Lock(); return if not running; else `s.stop <- true` begins,
\* with the mutex held until the deferred Unlock
StopLocked(g) ==
    /\ g \in Stoppers
    /\ pos[g] = "lock"
    /\ mu = "free"
    /\ IF running
       THEN /\ mu' = g
            /\ pos' = [pos EXCEPT ![g] = "send"]
       ELSE /\ pos' = [pos EXCEPT ![g] = "idle"]
            /\ UNCHANGED mu
    /\ UNCHANGED termVars
    /\ UNCHANGED <<now, cacheVars, aggVars, cbVars, retryVars, schedVars, mergeVars, fanVars>>

Receiving_UnderMutex == runLoop = "select" /\ mu = "free"

\* Scheduler.run waits in its select, which takes no lock: it can receive from s.stop
Receiving == runLoop = "select"

\* Scheduler.run, case <-s.stop: the receive that completes the send of Stop
RunStop(g) ==
    /\ g \in Stoppers
    /\ pos[g] = "send"
    /\ Receiving
    /\ runLoop' = "none"
    /\ exiting' = [exiting EXCEPT !.same = @ + 1]
    /\ pos' = [pos EXCEPT ![g] = "sent"]
    /\ UNCHANGED <<cities, handing, running, ticker, tickPending, lastRun, pending, cycles, evt>>
    /\ UNCHANGED <<mu, termVars>>
    /\ UNCHANGED <<now, cacheVars, aggVars, cbVars, retryVars, mergeVars, fanVars>>

StopReturn_AbortsCycles(g) ==
    /\ g \in Stoppers
    /\ pos[g] = "sent"
    /\ running' = FALSE
    /\ mu' = "free"
    /\ pos' = [pos EXCEPT ![g] = "idle"]
    /\ cycles' = [s \in Triggers |-> 0]
    /\ handing' = [s \in Triggers |-> 0]
    /\ UNCHANGED <<cities, ticker, tickPending, runLoop, exiting, lastRun, pending, evt>>
    /\ UNCHANGED termVars
    /\ UNCHANGED <<now, cacheVars, aggVars, cbVars, retryVars, mergeVars, fanVars>>
\* Scheduler.Stop after the send: s.running = false, then the deferred s.mu.Unlock()
StopReturn(g) ==
    /\ g \in Stoppers
    /\ pos[g] = "sent"
    /\ running' = FALSE
    /\ mu' = "free"
    /\ pos' = [pos EXCEPT ![g] = "idle"]
    /\ UNCHANGED <<cities, handing, ticker, tickPending, runLoop, exiting, lastRun, pending, cycles, evt>>
    /\ UNCHANGED termVars
    /\ UNCHANGED <<now, cacheVars, aggVars, cbVars, retryVars, mergeVars, fanVars>>

\* Scheduler.run, case <-s.stop: s.ticker.Stop() and return. The loop reads s.ticker
\* without the mutex: after a later Start it may see the old or the new ticker
Exited(e, seesCurrent) ==
    /\ exiting[e] > 0
    /\ e = "same" => seesCurrent
    /\ exiting' = [exiting EXCEPT ![e] = @ - 1]
    /\ ticker' = IF seesCurrent THEN [ticker EXCEPT !.on = FALSE] ELSE ticker
    /\ UNCHANGED <<cities, handing, running, tickPending, runLoop, lastRun, pending, cycles>>
    /\ UNCHANGED <<now, cacheVars, aggVars, cbVars, retryVars, mergeVars, fanVars, lifeVars>>

\* Scheduler.run, case <-s.stop, noted in evt
RunExit(e, seesCurrent) ==
    /\ Exited(e, seesCurrent)
    /\ evt' = [op |-> "exit", src |-> "", started |-> FALSE, sched |-> evt.sched,
               cities |-> {}]

\* if !s.lastRun.IsZero() && time.Since(s.lastRun) < s.interval
Skip_AtInterval ==
    ~lastRun.zero /\ now - lastRun.at <= interval
Skip ==
    ~lastRun.zero /\ now - lastRun.at < interval

\* Scheduler.runFetch from s.mu.Lock() to s.mu.Unlock(): the overlap check and, unless it
\* returns, s.lastRun = time.Now(); the cycle it starts has yet to read s.cities
Fetching(src) ==
    /\ pending[src] > 0
    /\ mu = "free"
    /\ pending' = [pending EXCEPT ![src] = @ - 1]
    /\ IF Skip
       THEN UNCHANGED <<lastRun, cycles, handing>>
       ELSE /\ cycles[src] < MaxInFlight
            /\ lastRun' = [zero |-> FALSE, at |-> now]
            /\ cycles' = [cycles EXCEPT ![src] = @ + 1]
            /\ handing' = [handing EXCEPT ![src] = @ + 1]
    /\ UNCHANGED <<cities, running, ticker, tickPending, runLoop, exiting>>
    /\ UNCHANGED <<now, cacheVars, aggVars, cbVars, retryVars, mergeVars, fanVars, lifeVars>>

\* Scheduler.runFetch, the lock section, noted in evt: whether it started a cycle and
\* when the latest scheduled (start or tick) cycle started
runFetch(src) ==
    /\ Fetching(src)
    /\ evt' = [op |-> "runFetch", src |-> src, started |-> ~Skip,
                sched |-> IF Skip \/ src = "force" THEN evt.sched ELSE now,
                cities |-> {}]

\* Scheduler.runFetch after its Unlock: s.aggregator.FetchWeatherData(ctx, s.cities). It
\* reads s.cities without the mutex: the list is the one s.cities holds at the read,
\* which an UpdateCities since the lock section may have written; next to a concurrent
\* UpdateCities it is the list before the write or the one after it
ReadCities(src) ==
    /\ handing[src] > 0
    /\ handing' = [handing EXCEPT ![src] = @ - 1]
    /\ UNCHANGED <<cities, running, ticker, tickPending, runLoop, exiting, lastRun, pending,
                   cycles>>
    /\ UNCHANGED <<now, cacheVars, aggVars, cbVars, retryVars, mergeVars, fanVars, lifeVars>>

\* the call of FetchWeatherData, noted in evt with the list handed over
HandOver(src) ==
    /\ ReadCities(src)
    /\ evt' = [op |-> "FetchWeatherData", src |-> src, started |-> FALSE,
               sched |-> evt.sched, cities |-> cities]

LockedRunFetch(src) ==
    /\ Fetching(src)
    /\ UNCHANGED evt

\* Scheduler.runFetch: FetchWeatherData returned and the cycle is over
Fetched(src) ==
    /\ cycles[src] > handing[src]
    /\ cycles' = [cycles EXCEPT ![src] = @ - 1]
    /\ UNCHANGED <<cities, handing, running, ticker, tickPending, runLoop, exiting, lastRun, pending>>
    /\ UNCHANGED <<now, cacheVars, aggVars, cbVars, retryVars, mergeVars, fanVars, lifeVars>>

\* Scheduler.runFetch: the end of the cycle, noted in evt
FetchDone(src) ==
    /\ Fetched(src)
    /\ evt' = [op |-> "done", src |-> src, started |-> FALSE, sched |-> evt.sched,
               cities |-> {}]

\* Scheduler.ForceRun: go s.runFetch()
Forced ==
    /\ pending["force"] < MaxPending
    /\ pending' = Spawn("force")
    /\ UNCHANGED <<cities, handing, running, ticker, tickPending, runLoop, exiting, lastRun, cycles>>
    /\ UNCHANGED <<now, cacheVars, aggVars, cbVars, retryVars, mergeVars, fanVars, lifeVars>>

\* Scheduler.ForceRun, noted in evt
ForceRun ==
    /\ Forced
    /\ evt' = [op |-> "ForceRun", src |-> "force", started |-> FALSE, sched |-> evt.sched,
               cities |-> {}]

\* Scheduler.GetStatus: reads the fields under s.mu.Lock()
GetStatus(g) ==
    /\ g \in Watchers
    /\ pos[g] = "lock"
    /\ mu = "free"
    /\ pos' = [pos EXCEPT ![g] = "idle"]
    /\ UNCHANGED <<mu, termVars>>
    /\ UNCHANGED <<now, cacheVars, aggVars, cbVars, retryVars, schedVars, mergeVars, fanVars>>

\* Scheduler.UpdateCities: s.cities = cities under s.mu
UpdateCities(cs) ==
    /\ mu = "free"
    /\ cities' = cs
    /\ evt' = [op |-> "UpdateCities", src |-> "", started |-> FALSE, sched |-> evt.sched,
               cities |-> {}]
    /\ UNCHANGED <<handing, running, ticker, tickPending, runLoop, exiting, lastRun, pending, cycles>>
    /\ UNCHANGED <<now, cacheVars, aggVars, cbVars, retryVars, mergeVars, fanVars, lifeVars>>

NextSched ==
    \/ SchedTick
    \/ \E cs \in CityLists : UpdateCities(cs)
    \/ \E g \in Starters \cup Stoppers : Enter(g)
    \/ \E g \in Starters : Start(g)
    \/ \E g \in Starters : StartSpawn(g)
    \/ RunTick
    \/ \E g \in Stoppers : StopLocked(g)
    \/ \E g \in Stoppers : RunStop(g)
    \/ \E g \in Stoppers : StopReturn(g)
    \/ \E e \in {"same", "replaced"}, seesCurrent \in BOOLEAN : RunExit(e, seesCurrent)
    \/ \E src \in Triggers : runFetch(src)
    \/ \E src \in Triggers : HandOver(src)
    \/ \E src \in Triggers : FetchDone(src)
    \/ ForceRun

SpecSched == Init /\ [][NextSched]_vars

\* ------------------------------- the scheduler's mutex and stop channel
LifeMaxTime == 2

\* time passes, whether the scheduler runs or not; a running ticker whose period ends
\* puts a tick into ticker.C (as SchedTick, up to LifeMaxTime)
LifeTick ==
    /\ now < LifeMaxTime
    /\ now' = now + 1
    /\ IF ticker.on /\ ticker.next = now + 1
       THEN /\ tickPending' = TRUE
            /\ ticker' = [ticker EXCEPT !.next = @ + interval]
       ELSE UNCHANGED <<tickPending, ticker>>
    /\ UNCHANGED <<cities, handing, running, runLoop, exiting, lastRun, pending, cycles, evt>>
    /\ UNCHANGED <<cacheVars, aggVars, cbVars, retryVars, mergeVars, fanVars, lifeVars>>

NextLife ==
    \/ LifeTick
    \/ \E g \in SchedCallers : Enter(g)
    \/ \E g \in Starters : StartLocked(g)
    \/ \E g \in Starters : StartSpawn(g)
    \/ \E g \in Stoppers : StopLocked(g)
    \/ \E g \in Stoppers : RunStop(g)
    \/ \E g \in Stoppers : StopReturn(g)
    \/ \E g \in Watchers : GetStatus(g)
    \/ Ticked /\ UNCHANGED evt
    \/ \E e \in {"same", "replaced"}, seesCurrent \in BOOLEAN :
          Exited(e, seesCurrent) /\ UNCHANGED evt
    \/ \E src \in Triggers : LockedRunFetch(src)
    \/ \E src \in Triggers : ReadCities(src) /\ UNCHANGED evt
    \/ \E src \in Triggers : Fetched(src) /\ UNCHANGED evt
    \/ Forced /\ UNCHANGED evt

\* Every goroutine that can take a step takes it; sync.Mutex hands the lock to a waiter
\* that keeps being overtaken (starvation mode), so the lock steps are strongly fair.
\* Nothing obliges anybody to call Start, Stop, GetStatus or ForceRun, nor time to pass.
\* Strong fairness of the lock sections (StartLocked, StopLocked, GetStatus,
\* LockedRunFetch) and weak fairness of StartSpawn, RunStop, StopReturn, ReadCities and Fetched, each
\* with its enabling condition and its effect written out
LifeFairness ==
    /\ \A g \in SchedCallers :
          \/ <>[](~(pos[g] = "lock" /\ mu = "free"))
          \/ []<><<pos[g] = "lock" /\ pos'[g] # "lock">>_pos
    /\ \A g \in Starters :
          \/ []<>(pos[g] # "spawn")
          \/ []<><<pos[g] = "spawn" /\ pos'[g] # "spawn">>_pos
    /\ \A g \in Stoppers :
          /\ \/ []<>(~(pos[g] = "send" /\ Receiving))
             \/ []<><<pos[g] = "send" /\ pos'[g] # "send">>_pos
          /\ \/ []<>(pos[g] # "sent")
             \/ []<><<pos[g] = "sent" /\ pos'[g] # "sent">>_pos
    /\ \A src \in Triggers :
          /\ \/ <>[](~(pending[src] > 0 /\ mu = "free" /\ (Skip \/ cycles[src] < MaxInFlight)))
             \/ []<><<pending'[src] < pending[src]>>_pending
          /\ \/ []<>(handing[src] = 0)
             \/ []<><<handing'[src] < handing[src]>>_handing
          /\ \/ []<>(cycles[src] <= handing[src])
             \/ []<><<cycles'[src] < cycles[src]>>_cycles

SpecLife == Init /\ [][NextLife]_vars /\ LifeFairness

\* ------------------------------------------- the aggregation functions alone
\* Snapshots handed to aggregateCurrentWeather and aggregateForecast: up to three sources
\* (getSourceName names every other client "unknown"), readings whose timestamps lie
\* before and after the zero time, forecasts of 0..FetchDays entries.
MergeSources == Sources \cup {"unknown"}
MergeTemps == {10, 14, 20}
MergeStamps == {-1, 2, 3}
MergeReadings == {Reading(t, ts) : t \in MergeTemps, ts \in MergeStamps}
MergeBases == {10, 20}
MergeForecasts == {[i \in 1..n |-> b + i] : n \in 0..FetchDays, b \in MergeBases}

Maps(S, V) == UNION {[D -> V] : D \in SUBSET S}
CurrentSnapshots ==
    {[city |-> c, current |-> cur, forecasts |-> <<>>] :
        c \in SchedulerCities, cur \in Maps(MergeSources, MergeReadings)}
ForecastSnapshots ==
    {[city |-> c, current |-> <<>>, forecasts |-> fc] :
        c \in SchedulerCities, fc \in Maps(MergeSources, MergeForecasts)}

\* a caller builds a models.WeatherData
NewWeatherData(data) ==
    /\ snap = NoWeatherData
    /\ snap' = data
    /\ UNCHANGED <<mcur, mfc>>
    /\ UNCHANGED <<now, cacheVars, aggVars, cbVars, retryVars, schedVars, fanVars, lifeVars>>

\* a.aggregateCurrentWeather(data)
AggregateCurrent ==
    /\ snap # NoWeatherData
    /\ ~mcur.called
    /\ mcur' = [called |-> TRUE, days |-> 0, res |-> aggregateCurrentWeather(snap)]
    /\ UNCHANGED <<snap, mfc>>
    /\ UNCHANGED <<now, cacheVars, aggVars, cbVars, retryVars, schedVars, fanVars, lifeVars>>

\* a.aggregateForecast(data, days)
AggregateForecast(days) ==
    /\ snap # NoWeatherData
    /\ mfc.days # days
    /\ mfc' = [called |-> TRUE, days |-> days, res |-> aggregateForecast(snap, days)]
    /\ UNCHANGED <<snap, mcur>>
    /\ UNCHANGED <<now, cacheVars, aggVars, cbVars, retryVars, schedVars, fanVars, lifeVars>>

NextMerge ==
    \/ \E data \in CurrentSnapshots \cup ForecastSnapshots : NewWeatherData(data)
    \/ AggregateCurrent
    \/ \E days \in 1..MaxDays : AggregateForecast(days)

SpecMerge == Init /\ [][NextMerge]_vars

\* ------------------------------------- one refresh cycle, source by source
\* FetchWeatherData called by the scheduler for its configured cities, with the source
\* goroutines of fetchCityWeather as separate steps. task[c][s] is the goroutine of
\* source s for city c: its position, the response it builds, and how often it has
\* invoked GetCurrentWeather and GetForecast (with which day-count).
FanCaller == "scheduler"

\* FetchWeatherData: one goroutine per city; fetchCityWeather: one goroutine per client
FanOut(cs) ==
    /\ call[FanCaller] = NoCall
    /\ StartFetch(FanCaller, "FetchWeatherData", "", 0, cs)
    /\ task' = [c \in Cities |-> [s \in Sources |->
                  IF c \in cs THEN [NoTask EXCEPT !.pc = "start"] ELSE NoTask]]
    /\ deadline' = NoDeadline
    /\ UNCHANGED <<now, cacheVars, weatherData, successCount, failureCount, ret>>
    /\ UNCHANGED <<cbVars, retryVars, schedVars, mergeVars, lifeVars>>

AfterCurrent_AbortOnError(o) == IF o.ok THEN "forecast" ELSE "sent"

\* the source goroutine after GetCurrentWeather: it goes on to GetForecast, error or not
AfterCurrent(o) == "forecast"

\* source goroutine: current, err := c.GetCurrentWeather(ctx, city)
SourceCurrent(c, s, o) ==
    /\ task[c][s].pc = "start"
    /\ task' = [task EXCEPT ![c][s] =
                   [@ EXCEPT !.pc = AfterCurrent(o),
                             !.nCurrent = @ + 1,
                             !.resp = APIResponse(o.ok, o.current, FALSE, <<>>)]]
    /\ UNCHANGED <<now, cacheVars, aggVars, cbVars, retryVars, schedVars, mergeVars, deadline, lifeVars>>

\* source goroutine: forecast, err := c.GetForecast(ctx, city, 3); responses <- response
SourceForecast(c, s, o) ==
    /\ task[c][s].pc = "forecast"
    /\ task' = [task EXCEPT ![c][s] =
                   [@ EXCEPT !.pc = "sent",
                             !.nForecast = @ + 1,
                             !.days = FetchDays,
                             !.resp = APIResponse(@.hasCurrent, @.current, o.ok, o.forecast)]]
    /\ UNCHANGED <<now, cacheVars, aggVars, cbVars, retryVars, schedVars, mergeVars, deadline, lifeVars>>

AllSent_Any(c) == \E s \in Sources : task[c][s].pc = "sent"

\* wg.Wait() of fetchCityWeather returns once every source goroutine has called wg.Done()
AllSent(c) == \A s \in Sources : task[c][s].pc = "sent"

\* fetchCityWeather from wg.Wait() to the store of the snapshot
WaitAndProcess(c) ==
    /\ cyc[FanCaller][c].pc = "tasks"
    /\ AllSent(c)
    /\ ProcessResponses(FanCaller, c, [s \in Sources |-> task[c][s].resp])
    /\ UNCHANGED <<now, cacheVars, successCount, lastFetchTime, ret>>
    /\ UNCHANGED <<cbVars, retryVars, schedVars, mergeVars, fanVars, lifeVars>>

NextFanout ==
    \/ Budget(Cardinality(Cities), MaxCycles) /\ FanOut(Cities)
    \/ \E c \in Cities, s \in Sources, o \in CurrentOutcomes : SourceCurrent(c, s, o)
    \/ \E c \in Cities, s \in Sources, o \in ForecastOutcomes : SourceForecast(c, s, o)
    \/ \E c \in Cities : WaitAndProcess(c)
    \/ \E c \in Cities : ReadWeatherData(FanCaller, c)
    \/ \E c \in Cities : aggregateAndCache(FanCaller, c)
    \/ \E c \in Cities : cacheForecastDay(FanCaller, c)
    \/ \E c \in Cities : countSuccess(FanCaller, c)
    \/ Return(FanCaller)

SpecFanout == Init /\ [][NextFanout]_vars

\* ------------------------------------- a refresh whose deadline passes
\* The caller's context (runFetch: 60 s, GetAggregated*: 30 s) expires while the refresh
\* is in flight. deadline.pending keeps the cities that had a source call outstanding.
Expire ==
    /\ call[FanCaller] # NoCall
    /\ ~deadline.expired
    /\ deadline' = [expired |-> TRUE, pending |-> {c \in Cities : ~AllSent(c)},
                    aggregated |-> {c \in Cities : cyc[FanCaller][c].pc = "done"
                                                    /\ cyc[FanCaller][c].err = "none"}]
    /\ UNCHANGED <<now, cacheVars, aggVars, cbVars, retryVars, schedVars, mergeVars, task,
                   lifeVars>>

\* a source call returns the context's error once the context has expired
\* (http.NewRequestWithContext / httpClient.Do, and the retry loop's <-ctx.Done())
CurrentOutcomesUnder(ctx) ==
    IF ctx.expired THEN {o \in CurrentOutcomes : ~o.ok} ELSE CurrentOutcomes
ForecastOutcomesUnder(ctx) ==
    IF ctx.expired THEN {o \in ForecastOutcomes : ~o.ok} ELSE ForecastOutcomes

NextDeadline ==
    \/ Budget(Cardinality(Cities), MaxCycles) /\ FanOut(Cities)
    \/ Expire
    \/ \E c \in Cities, s \in Sources, o \in CurrentOutcomesUnder(deadline) :
          SourceCurrent(c, s, o)
    \/ \E c \in Cities, s \in Sources, o \in ForecastOutcomesUnder(deadline) :
          SourceForecast(c, s, o)
    \/ \E c \in Cities : WaitAndProcess(c)
    \/ \E c \in Cities : ReadWeatherData(FanCaller, c)
    \/ \E c \in Cities : aggregateAndCache(FanCaller, c)
    \/ \E c \in Cities : cacheForecastDay(FanCaller, c)
    \/ \E c \in Cities : countSuccess(FanCaller, c)
    \/ Return(FanCaller)

SpecDeadline == Init /\ [][NextDeadline]_vars

\* --------------------------- refreshes with their channels and locks explicit
\* FetchWeatherData calls of the scheduler and of a handler side by side, next to
\* GetLastFetchTime, GetStats, Gets of the cache and cleanup sweeps, with the two mutexes
\* and the two channels explicit. Every Lock(), RLock(), Unlock() and RUnlock() is a step
\* of its own, and between two lock sections a goroutine holds nothing. Lock() takes the
\* mutex of the writers whenever it is free, whoever has waited for it and for how long;
\* the writer that has it holds back the readers that come after it and gets the lock
\* from the last reader that leaves; Unlock() lets in the readers that wait. What the
\* calls compute is left out here; what decides their path (how many responses carry a
\* reading, how many day-counts have a forecast, whether a cached item has expired) is
\* an input of the step that reads it.

\* the two mutexes and the places of the goroutines, as one record
Locks == [amu |-> amu, cmu |-> cmu, rf |-> rf, cg |-> cg, gs |-> gs, sweep |-> sweep,
          cget |-> cget]
Becomes(S) ==
    /\ amu' = S.amu /\ cmu' = S.cmu /\ rf' = S.rf /\ cg' = S.cg
    /\ gs' = S.gs /\ sweep' = S.sweep /\ cget' = S.cget

\* The lock sections of a city's goroutine, named by what they do: "fail" is
\* a.failureCount++ under a.mu.Lock(), "store" a.weatherData[city] = weatherData under
\* a.mu.Lock(), "read" the read of a.weatherData[city] in aggregateAndCache under
\* a.mu.RLock(), "current" a.cache.SetCurrentWeather and "forecast" a.cache.SetForecast
\* under c.mu.Lock(), "count" a.successCount++ under a.mu.Lock()
Sections == {"fail", "store", "read", "current", "forecast", "count"}
MutexOf(pc) == IF pc \in {"current", "forecast"} THEN "cmu" ELSE "amu"

\* Lock() gets the mutex of the writers if no writer has it
CanLock(S, m) == S[m].writer = "none"
\* where Lock() is once it has the mutex of the writers: "in" the section if no reader
\* holds the lock, or it has to "wait" for the readers to leave
Locked(S, m) == IF S[m].readers = 0 THEN "in" ELSE "wait"
Lock(S, m) == [S EXCEPT ![m].writer = IF S[m].readers = 0 THEN "holds" ELSE "waits"]
\* RLock() returns at once unless a writer holds the lock or waits for the readers
CanRLock(S, m) == S[m].writer = "none"
RLock(S, m) == [S EXCEPT ![m].readers = @ + 1]

\* the Lock() of the writer that waited for the readers returns: a FetchWeatherData is
\* "locked", a city's goroutine "in" its section, the cleanup "sweeping", a Get at "delete"
LockReturns(S, m) ==
    [S EXCEPT ![m].writer = "holds",
              !.cg = [k \in Callers |-> [i \in 1..TermCities |->
                        IF /\ S.cg[k][i].pc \in Sections \ {"read"}
                           /\ MutexOf(S.cg[k][i].pc) = m
                           /\ S.cg[k][i].st = "wait"
                        THEN [S.cg[k][i] EXCEPT !.st = "in"] ELSE S.cg[k][i]]],
              !.rf = [k \in Callers |->
                        IF m = "amu" /\ S.rf[k].pc = "drain"
                        THEN [S.rf[k] EXCEPT !.pc = "locked"] ELSE S.rf[k]],
              !.sweep = IF m = "cmu" /\ S.sweep = "drain" THEN "sweeping" ELSE S.sweep,
              !.cget = IF m = "cmu" /\ S.cget = "drain" THEN "delete" ELSE S.cget]

\* RUnlock(): the last reader to leave wakes the writer that waits for the readers
RUnlock(S, m) ==
    LET T == [S EXCEPT ![m].readers = @ - 1]
    IN IF T[m].readers = 0 /\ T[m].writer = "waits" THEN LockReturns(T, m) ELSE T

\* Unlock(): the readers that wait in RLock() are let in, and the mutex of the writers
\* is free
Unlock(S, m) ==
    IF m = "amu"
    THEN LET waiting == {ki \in Callers \X (1..TermCities) :
                            /\ S.cg[ki[1]][ki[2]].pc = "read"
                            /\ S.cg[ki[1]][ki[2]].st = "wait"}
         IN [S EXCEPT !.amu = [writer |-> "none",
                               readers |-> Cardinality(waiting)
                                           + IF S.gs \in {"lastlock", "lock"} THEN 1 ELSE 0],
                      !.cg = [k \in Callers |-> [i \in 1..TermCities |->
                                 IF <<k, i>> \in waiting
                                 THEN [S.cg[k][i] EXCEPT !.st = "in"] ELSE S.cg[k][i]]],
                      !.gs = CASE S.gs = "lastlock" -> "last"
                               [] S.gs = "lock" -> "a"
                               [] OTHER -> S.gs]
    ELSE [S EXCEPT !.cmu = [writer |-> "none",
                            readers |-> (IF S.gs = "cache" THEN 1 ELSE 0)
                                        + (IF S.cget = "rlock" THEN 1 ELSE 0)],
                   !.gs = IF S.gs = "cache" THEN "stats" ELSE S.gs,
                   !.cget = IF S.cget = "rlock" THEN "item" ELSE S.cget]

\* the scheduler hands over s.cities, a handler []string{city}
Lists(k) == IF k = "scheduler" THEN 0..TermCities ELSE {1}

\* FetchWeatherData(ctx, cities) is called and calls a.mu.Lock()
CallFetch(k, n) ==
    /\ rf[k].pc = "idle"
    /\ rf' = [rf EXCEPT ![k] = [pc |-> "lock", n |-> n, errors |-> 0]]
    /\ UNCHANGED <<amu, cmu, cg, gs, sweep, cget>>
    /\ UNCHANGED <<mu, pos>>
    /\ UNCHANGED <<now, cacheVars, aggVars, cbVars, retryVars, schedVars, mergeVars, fanVars>>

\* FetchWeatherData: a.mu.Lock() gets the mutex of the writers; the call is "locked",
\* or has to "drain" the readers first
LockFetch(k) ==
    /\ rf[k].pc = "lock"
    /\ CanLock(Locks, "amu")
    /\ Becomes([Lock(Locks, "amu") EXCEPT
                  !.rf[k].pc = IF amu.readers = 0 THEN "locked" ELSE "drain"])
    /\ UNCHANGED <<mu, pos>>
    /\ UNCHANGED <<now, cacheVars, aggVars, cbVars, retryVars, schedVars, mergeVars, fanVars>>

\* FetchWeatherData: a.lastFetchTime = time.Now(), a.mu.Unlock(), errors := make(chan
\* error, len(cities)), one goroutine per city, each in fetchCityWeather with one
\* goroutine per client, wg.Wait()
GoCities(k) ==
    /\ rf[k].pc = "locked"
    /\ Becomes([Unlock(Locks, "amu") EXCEPT
                  !.rf[k].pc = "wait",
                  !.cg[k] = [i \in 1..TermCities |->
                               IF i <= rf[k].n THEN [NoGoroutine EXCEPT !.pc = "fetch"]
                               ELSE NoGoroutine]])
    /\ UNCHANGED <<mu, pos>>
    /\ UNCHANGED <<now, cacheVars, aggVars, cbVars, retryVars, schedVars, mergeVars, fanVars>>

ResponsesCap_OneShort == Cardinality(Sources) - 1

\* responses := make(chan models.APIResponse, len(a.clients))
ResponsesCap == Cardinality(Sources)

\* errors := make(chan error, len(cities))
ErrorsCap(k) == rf[k].n

\* a source goroutine of fetchCityWeather: its calls have returned, `responses <-
\* response`; nothing receives before wg.Wait() has returned, so the send waits for room
SendResponse(k, i) ==
    /\ cg[k][i].pc = "fetch"
    /\ cg[k][i].sent < Cardinality(Sources)
    /\ cg[k][i].sent < ResponsesCap
    /\ cg' = [cg EXCEPT ![k][i].sent = @ + 1]
    /\ UNCHANGED <<amu, cmu, rf, gs, sweep, cget>>
    /\ UNCHANGED <<mu, pos>>
    /\ UNCHANGED <<now, cacheVars, aggVars, cbVars, retryVars, schedVars, mergeVars, fanVars>>

\* fetchCityWeather: wg.Wait() has returned, close(responses), the loop over the
\* responses, of which withCurrent carry a reading: `if successCount == 0` it returns the
\* error, else it goes on to its a.mu.Lock()
RangeResponses(k, i, withCurrent) ==
    /\ cg[k][i].pc = "fetch"
    /\ cg[k][i].sent = Cardinality(Sources)
    /\ cg' = [cg EXCEPT ![k][i] = [NoGoroutine EXCEPT
                                     !.pc = IF withCurrent = 0 THEN "error" ELSE "store"]]
    /\ UNCHANGED <<amu, cmu, rf, gs, sweep, cget>>
    /\ UNCHANGED <<mu, pos>>
    /\ UNCHANGED <<now, cacheVars, aggVars, cbVars, retryVars, schedVars, mergeVars, fanVars>>

\* the city's goroutine in FetchWeatherData: `errors <- err`, on to a.mu.Lock()
SendError(k, i) ==
    /\ cg[k][i].pc = "error"
    /\ rf[k].errors < ErrorsCap(k)
    /\ rf' = [rf EXCEPT ![k].errors = @ + 1]
    /\ cg' = [cg EXCEPT ![k][i] = [NoGoroutine EXCEPT !.pc = "fail"]]
    /\ UNCHANGED <<amu, cmu, gs, sweep, cget>>
    /\ UNCHANGED <<mu, pos>>
    /\ UNCHANGED <<now, cacheVars, aggVars, cbVars, retryVars, schedVars, mergeVars, fanVars>>

\* a city's goroutine at the lock of its section: a.mu.RLock() returns or has to wait
\* for the writer's Unlock(); Lock() gets the mutex of the writers once it is free, and
\* then returns or has to wait for the readers to leave
Acquire(k, i) ==
    LET pc == cg[k][i].pc
        m == MutexOf(pc)
    IN
    /\ pc \in Sections
    /\ cg[k][i].st = "call"
    /\ pc # "read" => CanLock(Locks, m)
    /\ Becomes(IF pc # "read"
               THEN [Lock(Locks, m) EXCEPT !.cg[k][i].st = Locked(Locks, m)]
               ELSE IF CanRLock(Locks, m)
               THEN [RLock(Locks, m) EXCEPT !.cg[k][i].st = "in"]
               ELSE [Locks EXCEPT !.cg[k][i].st = "wait"])
    /\ UNCHANGED <<mu, pos>>
    /\ UNCHANGED <<now, cacheVars, aggVars, cbVars, retryVars, schedVars, mergeVars, fanVars>>

\* the place that follows a section, with `days` day-counts left for the loop of
\* aggregateAndCache
After(pc, days) ==
    CASE pc = "fail" -> "done"
      [] pc = "store" -> "read"
      [] pc = "read" -> "current"
      [] pc \in {"current", "forecast"} -> IF days > 0 THEN "forecast" ELSE "count"
      [] pc = "count" -> "done"

\* a city's goroutine ends its section and releases the lock; it goes on to the next
\* section, holding nothing, or returns after the last (wg.Done()); after
\* SetCurrentWeather the loop of aggregateAndCache finds forecasts for `forecasts`
\* day-counts in the snapshot, and each SetForecast leaves one less to cache
Release(k, i, forecasts) ==
    LET pc == cg[k][i].pc
        S == IF pc = "read" THEN RUnlock(Locks, "amu") ELSE Unlock(Locks, MutexOf(pc))
        days == IF pc = "current" THEN forecasts
                ELSE IF pc = "forecast" THEN cg[k][i].days - 1 ELSE 0
    IN
    /\ pc \in Sections
    /\ cg[k][i].st = "in"
    /\ pc # "current" => forecasts = 0
    /\ Becomes([S EXCEPT !.cg[k][i] = [NoGoroutine EXCEPT !.pc = After(pc, days),
                                                          !.days = days]])
    /\ UNCHANGED <<mu, pos>>
    /\ UNCHANGED <<now, cacheVars, aggVars, cbVars, retryVars, schedVars, mergeVars, fanVars>>

\* every city's goroutine has called wg.Done()
AllDone(k) == \A i \in 1..rf[k].n : cg[k][i].pc = "done"

\* FetchWeatherData: wg.Wait() has returned, close(errors), the loop over the errors,
\* return
FetchReturns(k) ==
    /\ rf[k].pc = "wait"
    /\ AllDone(k)
    /\ rf' = [rf EXCEPT ![k] = NoRefresh]
    /\ cg' = [cg EXCEPT ![k] = [i \in 1..TermCities |-> NoGoroutine]]
    /\ UNCHANGED <<amu, cmu, gs, sweep, cget>>
    /\ UNCHANGED <<mu, pos>>
    /\ UNCHANGED <<now, cacheVars, aggVars, cbVars, retryVars, schedVars, mergeVars, fanVars>>

\* Aggregator.GetLastFetchTime of a handler: a.mu.RLock(), the read, the deferred
\* a.mu.RUnlock(). gs is "lastlock" while it waits for a.mu and "last" while it holds it
GetLastFetchTime ==
    /\ gs \in {"idle", "last"}
    /\ Becomes(IF gs = "last" THEN [RUnlock(Locks, "amu") EXCEPT !.gs = "idle"]
               ELSE IF CanRLock(Locks, "amu") THEN [RLock(Locks, "amu") EXCEPT !.gs = "last"]
               ELSE [Locks EXCEPT !.gs = "lastlock"])
    /\ UNCHANGED <<mu, pos>>
    /\ UNCHANGED <<now, cacheVars, aggVars, cbVars, retryVars, schedVars, mergeVars, fanVars>>

\* Aggregator.GetStats of a handler: a.mu.RLock(), the c.mu.RLock() of
\* WeatherCache.GetStats and its deferred c.mu.RUnlock(), the deferred a.mu.RUnlock().
\* gs is "lock" while it waits for a.mu, "a" while it holds a.mu, "cache" while it holds
\* a.mu and waits for c.mu, "stats" while it holds both, "return" once it has released
\* c.mu
GetStats ==
    /\ gs \in {"idle", "a", "stats", "return"}
    /\ Becomes(CASE gs = "idle" ->
                      IF CanRLock(Locks, "amu") THEN [RLock(Locks, "amu") EXCEPT !.gs = "a"]
                      ELSE [Locks EXCEPT !.gs = "lock"]
                 [] gs = "a" ->
                      IF CanRLock(Locks, "cmu") THEN [RLock(Locks, "cmu") EXCEPT !.gs = "stats"]
                      ELSE [Locks EXCEPT !.gs = "cache"]
                 [] gs = "stats" -> [RUnlock(Locks, "cmu") EXCEPT !.gs = "return"]
                 [] gs = "return" -> [RUnlock(Locks, "amu") EXCEPT !.gs = "idle"])
    /\ UNCHANGED <<mu, pos>>
    /\ UNCHANGED <<now, cacheVars, aggVars, cbVars, retryVars, schedVars, mergeVars, fanVars>>

\* WeatherCache.cleanup on a tick of its ticker: c.mu.Lock(), the sweep, the deferred
\* c.mu.Unlock(); sweep is "lock" while it is in Lock() without the mutex of the
\* writers, "drain" while it waits for the readers, "sweeping" while it holds the lock
Cleanup ==
    /\ sweep # "drain"
    /\ sweep = "lock" => CanLock(Locks, "cmu")
    /\ Becomes(CASE sweep = "idle" -> [Locks EXCEPT !.sweep = "lock"]
                 [] sweep = "lock" ->
                      [Lock(Locks, "cmu") EXCEPT
                         !.sweep = IF cmu.readers = 0 THEN "sweeping" ELSE "drain"]
                 [] sweep = "sweeping" -> [Unlock(Locks, "cmu") EXCEPT !.sweep = "idle"])
    /\ UNCHANGED <<mu, pos>>
    /\ UNCHANGED <<now, cacheVars, aggVars, cbVars, retryVars, schedVars, mergeVars, fanVars>>

\* WeatherCache.GetCurrentWeather and GetForecast: c.mu.RLock(), the read of the item,
\* c.mu.RUnlock(); for an item that has expired, c.mu.Lock(), delete, c.mu.Unlock().
\* cget is "rlock" while it waits for the read lock, "item" while it holds it, "lock"
\* from its RUnlock() until its Lock() has the mutex of the writers, "drain" while it
\* waits for the readers, "delete" while it holds the write lock
CacheGet(expired) ==
    /\ cget \notin {"rlock", "drain"}
    /\ cget = "lock" => CanLock(Locks, "cmu")
    /\ cget # "item" => ~expired
    /\ Becomes(CASE cget = "idle" ->
                      IF CanRLock(Locks, "cmu") THEN [RLock(Locks, "cmu") EXCEPT !.cget = "item"]
                      ELSE [Locks EXCEPT !.cget = "rlock"]
                 [] cget = "item" ->
                      [RUnlock(Locks, "cmu") EXCEPT !.cget = IF expired THEN "lock" ELSE "idle"]
                 [] cget = "lock" ->
                      [Lock(Locks, "cmu") EXCEPT
                         !.cget = IF cmu.readers = 0 THEN "delete" ELSE "drain"]
                 [] cget = "delete" -> [Unlock(Locks, "cmu") EXCEPT !.cget = "idle"])
    /\ UNCHANGED <<mu, pos>>
    /\ UNCHANGED <<now, cacheVars, aggVars, cbVars, retryVars, schedVars, mergeVars, fanVars>>

NextTerm ==
    \/ \E k \in Callers : \E n \in Lists(k) : CallFetch(k, n)
    \/ \E k \in Callers : LockFetch(k)
    \/ \E k \in Callers : GoCities(k)
    \/ \E k \in Callers, i \in 1..TermCities : SendResponse(k, i)
    \/ \E k \in Callers, i \in 1..TermCities, withCurrent \in 0..Cardinality(Sources) :
          RangeResponses(k, i, withCurrent)
    \/ \E k \in Callers, i \in 1..TermCities : SendError(k, i)
    \/ \E k \in Callers, i \in 1..TermCities : Acquire(k, i)
    \/ \E k \in Callers, i \in 1..TermCities, forecasts \in 0..TermDays :
          Release(k, i, forecasts)
    \/ \E k \in Callers : FetchReturns(k)
    \/ GetLastFetchTime
    \/ GetStats
    \/ Cleanup
    \/ \E expired \in BOOLEAN : CacheGet(expired)

\* the goroutine has a step that nothing can take from it: its send has room, it calls
\* RLock(), or it is inside a section
CityCanStep(k, i) ==
    LET g == cg[k][i] IN
    \/ g.pc = "fetch" /\ (g.sent = Cardinality(Sources) \/ g.sent < ResponsesCap)
    \/ g.pc = "error" /\ rf[k].errors < ErrorsCap(k)
    \/ g.pc \in Sections /\ g.st = "in"
    \/ g.pc = "read" /\ g.st = "call"
CallerCanStep(k) == rf[k].pc = "locked" \/ (rf[k].pc = "wait" /\ AllDone(k))
\* the goroutine is in Lock() and the mutex of the writers is free
CityCanLock(k, i) ==
    /\ cg[k][i].pc \in Sections \ {"read"}
    /\ cg[k][i].st = "call"
    /\ CanLock(Locks, MutexOf(cg[k][i].pc))
CallerCanLock(k) == rf[k].pc = "lock" /\ CanLock(Locks, "amu")

\* Every source call returns and every goroutine takes the steps that nothing can take
\* from it. Nothing obliges anybody to start a refresh, a GetLastFetchTime, a GetStats or
\* a Get, nor the cleanup ticker to fire, and nothing here obliges a Lock() to get the
\* mutex of the writers. Weak fairness of each goroutine, with its enabling condition
\* and its effect written out
TermFairness ==
    /\ \A k \in Callers :
          /\ \/ []<>(~CallerCanStep(k))
             \/ []<><<rf'[k].pc # rf[k].pc>>_rf
          /\ \A i \in 1..TermCities :
                \/ []<>(~CityCanStep(k, i))
                \/ []<><<cg'[k][i] # cg[k][i]>>_cg
    /\ \/ []<>(gs \notin {"last", "a", "stats", "return"})
       \/ []<><<TRUE>>_gs
    /\ \/ []<>(sweep # "sweeping")
       \/ []<><<TRUE>>_sweep
    /\ \/ []<>(cget \notin {"item", "delete"})
       \/ []<><<TRUE>>_cget

SpecTerm == Init /\ [][NextTerm]_vars /\ TermFairness

SpecCache == Init /\ [][NextCache]_vars
SpecAgg == Init /\ [][NextAgg]_vars

\* Two refresh cycles of a city side by side, the scheduler's and a handler's on a
\* cache miss, at one instant; the sources' forecasts hold up to RaceDays days
RaceForecasts == {o \in ForecastOutcomes : Len(o.forecast) <= RaceDays}
RaceResponses ==
    {[s \in Sources |-> APIResponse(cur[s].ok, cur[s].current, fc[s].ok, fc[s].forecast)] :
        cur \in [Sources -> CurrentOutcomes], fc \in [Sources -> RaceForecasts]}

NextRace ==
    \/ \E k \in Callers : Budget(Cardinality(cities), RaceCycles) /\ FetchWeatherData(k)
    \/ \E k \in Callers, c \in RequestCities : GetAggregatedCurrentWeather(k, c)
    \/ \E k \in Callers : CheckCached(k)
    \/ \E k \in Callers : Budget(1, RaceCycles) /\ RefreshOnMiss(k)
    \/ \E k \in Callers, c \in Cities, resp \in RaceResponses : fetchCityWeather(k, c, resp)
    \/ \E k \in Callers, c \in Cities : ReadWeatherData(k, c)
    \/ \E k \in Callers, c \in Cities : aggregateAndCache(k, c)
    \/ \E k \in Callers, c \in Cities : cacheForecastDay(k, c)
    \/ \E k \in Callers, c \in Cities : countSuccess(k, c)
    \/ \E k \in Callers : Return(k)
    \/ \E k \in Callers : Reread(k)
    \/ \E k \in Callers : Recheck(k)

SpecRace == Init /\ [][NextRace]_vars

\* ---------------------------------------------------- WeatherCache claims
\* every key of the cache: <<city, 0>> for current weather, <<city, days>> for a forecast
AllKeys(cw, fc) == {<<c, 0>> : c \in DOMAIN cw} \cup ForecastKeys(fc)
ExpiryOf(cw, fc, k) == IF k[2] = 0 THEN cw[k[1]].expiresAt ELSE fc[k[1]][k[2]].expiresAt
Keys == AllKeys(currentWeather, forecast)
KeysAfter == AllKeys(currentWeather', forecast')
SetOps == {"SetCurrentWeather", "SetForecast"}
GetOps == {"GetCurrentWeather", "GetForecast"}

\* C1: the combined number of entries (current-weather plus forecast) never
\* exceeds maxSize.
C1_OccupancyAtMostMaxSize ==
    totalItems(currentWeather, forecast) <= maxSize

\* C2: a put of a new key while the cache holds maxSize entries removes exactly
\* one existing entry, one of earliest expiry among all entries of both stores.
C2_PutAtCapacityEvictsEarliest ==
    [][(totalItems(currentWeather, forecast) = maxSize /\ KeysAfter \ Keys # {})
        => /\ Cardinality(Keys \ KeysAfter) = 1
           /\ \A k \in Keys \ KeysAfter : \A j \in Keys :
                 ExpiryOf(currentWeather, forecast, k) <= ExpiryOf(currentWeather, forecast, j)]_vars

\* C3: a Get returns a payload only if its expiry instant is not earlier than
\* the time of the read; a Get that read an entry past its expiry returns absent
\* and the entry's key is removed.
C3_NoReadPastExpiry ==
    [][\A p \in Procs : (get[p].op \in GetOps /\ get'[p] = Idle) =>
          /\ last'.op = get[p].op
          /\ last'.ok => (last'.item = get[p].item /\ ~(last'.item.expiresAt < now))
          /\ get[p].item.expiresAt < now =>
                (~last'.ok /\ <<get[p].city, get[p].days>> \notin KeysAfter)]_vars

\* a Get found its entry expired, returned absent and removed it
C3_Witness ==
    /\ last.op \in GetOps
    /\ ~last.ok
    /\ last.item # NoItem
    /\ last.item.expiresAt < now

\* C4: an entry whose TTL has not elapsed stays retrievable: it leaves the
\* cache only when a put evicts it for capacity.
C4_UnexpiredEntryStays ==
    [][\A k \in Keys :
          (now < ExpiryOf(currentWeather, forecast, k) /\ k \notin KeysAfter)
              => last'.op \in SetOps]_vars

\* ------------------------------------------------------ Aggregator claims
CycleIds == Callers \X Cities
HasReading(resp) == \E s \in Sources : resp[s].hasCurrent
GetCalls == {"GetAggregatedCurrentWeather", "GetAggregatedForecast"}

\* C5: a city's cycle succeeds exactly when some source returned a current
\* reading; with no reading it fails with the all-failed error and stores no
\* snapshot and caches nothing, even if a forecast call succeeded.
C5_CycleSucceedsIffReading ==
    /\ [](\A x \in CycleIds : cyc[x[1]][x[2]].pc = "done" =>
            (cyc[x[1]][x[2]].err = "none" <=> HasReading(cyc[x[1]][x[2]].resp)))
    /\ [][\A x \in CycleIds :
            (cyc[x[1]][x[2]].pc = "tasks" /\ cyc'[x[1]][x[2]].pc # "tasks"
                /\ ~HasReading(cyc'[x[1]][x[2]].resp))
            => /\ cyc'[x[1]][x[2]].pc = "done"
               /\ cyc'[x[1]][x[2]].err = "all API calls failed"
               /\ UNCHANGED <<weatherData, currentWeather, forecast, successCount>>]_vars

\* a cycle failed although a source's forecast call had succeeded
C5_Witness ==
    \E x \in CycleIds :
        /\ cyc[x[1]][x[2]].pc = "done"
        /\ cyc[x[1]][x[2]].err # "none"
        /\ \E s \in Sources : cyc[x[1]][x[2]].resp[s].hasForecast

\* C6: when some but not all sources fail, the consensus current record the cycle
\* caches for the city lists exactly the sources whose current-weather call succeeded
\* in that cycle, and the cycle is reported successful.
C6_PartialFailureSources ==
    [][\A x \in CycleIds :
          LET c == cyc[x[1]][x[2]] IN
          (c.pc \in {"read", "caching"} /\ HasReading(c.resp)
              /\ (\E s \in Sources : ~c.resp[s].hasCurrent))
          => /\ (c.pc = "read" /\ cyc'[x[1]][x[2]].pc # "read")
                => /\ x[2] \in DOMAIN currentWeather'
                   /\ currentWeather'[x[2]].data.sources
                         = {s \in Sources : c.resp[s].hasCurrent}
             /\ (c.pc = "caching" /\ cyc'[x[1]][x[2]].pc = "done")
                => /\ successCount' = successCount + 1
                   /\ cyc'[x[1]][x[2]].err = "none"]_vars

\* every call of every source failed
AllFailed(resp) ==
    DOMAIN resp = Sources /\ \A s \in Sources : ~resp[s].hasCurrent /\ ~resp[s].hasForecast

\* C7: when every source fails for a city missing from the cache,
\* GetAggregatedCurrentWeather returns a failure (no record), and the call has
\* added exactly 1 to failureCount and nothing to successCount.
C7_AllSourcesFail ==
    [][\A k \in Callers :
          call[k].op = "GetAggregatedCurrentWeather" =>
             /\ (cyc[k][call[k].city].pc = "tasks" /\ AllFailed(cyc'[k][call[k].city].resp))
                   => (failureCount' = failureCount + 1 /\ successCount' = successCount)
             /\ (call'[k] = NoCall /\ AllFailed(cyc[k][call[k].city].resp))
                   => /\ ~ret'.ok
                      /\ ret'.data = NoData
                      /\ call[k].errors = 1
                      /\ UNCHANGED <<failureCount, successCount>>]_vars

\* the call failed after its one cycle was counted as a failure
C7_Witness ==
    /\ ret.op = "GetAggregatedCurrentWeather"
    /\ ~ret.ok
    /\ ~ret.hit
    /\ failureCount = 1
    /\ successCount = 0

\* on a cache miss exactly one cycle, for the requested city only, is run
OneCycleForRequestedCity ==
    \A k \in Callers : (call[k].op \in GetCalls /\ call[k].pc \in {"fetch", "reread", "recheck"}) =>
        /\ call[k].cities = {call[k].city}
        /\ \A c \in Cities : cyc[k][c].pc # "none" <=> c = call[k].city

\* the refresh of caller k's Get returns in this step
Refreshed(k) == call[k].op \in GetCalls /\ call[k].pc = "fetch" /\ call'[k].pc # "fetch"
\* the cache Get after the refresh: its read of the key, then its answer, which is the
\* item read unless that item has expired
Rereads(k) ==
    /\ call[k].pc = "reread" /\ call'[k] # call[k]
       => IF Lookup(call[k].op, call[k].city, call[k].days).exists
          THEN /\ call'[k].pc = "recheck"
               /\ call'[k].item = Lookup(call[k].op, call[k].city, call[k].days).item
               /\ ret' = ret
          ELSE call'[k] = NoCall /\ ~ret'.ok /\ ret'.err = "not available"
    /\ call[k].pc = "recheck" /\ call'[k] # call[k]
       => /\ call'[k] = NoCall
          /\ IF Expired(call[k].item, now)
             THEN ~ret'.ok /\ ret'.err = "not available"
             ELSE ret'.ok /\ ret'.data = call[k].item.data /\ ~ret'.hit

\* C8 as stated: on a cache miss the call runs one refresh cycle for the
\* requested city only, re-reads the cache, and returns the record if it is
\* present and fails with the not-available error otherwise.
C8_MissRefreshThenReread ==
    /\ []OneCycleForRequestedCity
    /\ [][\A k \in Callers :
            /\ Refreshed(k) => (call'[k].pc = "reread" /\ ret' = ret)
            /\ Rereads(k)]_vars

\* C8 amended: when the refresh reports an error the call fails with the fetch
\* error and the cache is not read again; only after an error-free refresh is
\* the cache re-read, giving the record or the not-available error.
C8_MissRefreshRereadUnlessError ==
    /\ []OneCycleForRequestedCity
    /\ [][\A k \in Callers :
            /\ Refreshed(k) =>
                  IF call[k].errors > 0
                  THEN /\ call'[k] = NoCall
                       /\ ~ret'.ok /\ ret'.err = "failed to fetch"
                       /\ UNCHANGED <<currentWeather, forecast>>
                  ELSE call'[k].pc = "reread" /\ ret' = ret
            /\ Rereads(k)]_vars

\* a refresh succeeded and the re-read still found nothing
C8_Witness ==
    /\ ret.op \in GetCalls
    /\ ~ret.hit
    /\ ret.err = "not available"
    /\ successCount > 0

\* C9: on a cache hit the call returns the cached record and changes nothing:
\* no cycle starts, no snapshot is replaced, the counters and lastFetchTime stay. The
\* hit is the Get's read of an item under the key and its answer, that item unexpired.
C9_HitChangesNothing ==
    [][/\ (ret' # ret /\ ret'.hit) => \E k \in Callers : call[k].pc = "check" /\ call'[k] = NoCall
       /\ \A k \in Callers :
          /\ (call[k] = NoCall /\ call'[k].pc = "check")
             => /\ call'[k].item = Lookup(call'[k].op, call'[k].city, call'[k].days).item
                /\ Lookup(call'[k].op, call'[k].city, call'[k].days).exists
                /\ UNCHANGED <<weatherData, successCount, failureCount, lastFetchTime, cyc,
                               currentWeather, forecast, ret>>
          /\ (call[k].pc = "check" /\ ~Expired(call[k].item, now) /\ call'[k] # call[k])
             => /\ call'[k] = NoCall
                /\ ret' = Returned(call[k].op, call[k].city, TRUE, "none", TRUE, call[k].item.data)
                /\ UNCHANGED <<weatherData, successCount, failureCount, lastFetchTime, cyc,
                               currentWeather, forecast>>]_vars

\* a call was served from the cache after a refresh had filled it
C9_Witness ==
    /\ ret.hit
    /\ ret.ok
    /\ ret.data.sources # {}
    /\ successCount > 0

\* ------------------------------------------------- circuit breaker claims
\* the failure ratio of the counts is at least 0.6 over at least 3 requests
Tripping(counts) == counts.requests >= 3 /\ 10 * counts.totalFailures >= 6 * counts.requests

\* a GetWithRetry call started in this step was rejected by the breaker
Rejected(p) ==
    /\ req[p] = NoRequest
    /\ req'[p] = NoRequest
    /\ cbRet' = [proc |-> p, err |-> "circuit breaker is open"]

\* C10 as stated: a closed breaker with no call in flight never holds counts
\* of at least 3 requests with a failure ratio of at least 0.6 (it is open as
\* soon as they are reached).
C10_OpenAsSoonAsRatioReached ==
    (cbState = "closed" /\ \A p \in Procs : req[p] = NoRequest) => ~Tripping(cbCounts)

\* C10 amended: the ratio is evaluated when a call fails. When a GetWithRetry
\* call of the closed breaker's generation fails and the counts including that
\* failure reach 3 requests at ratio 0.6, the breaker is open; and a call
\* arriving at an open breaker before breakerTimeout has elapsed is rejected.
C10_OpenWhenFailureReachesRatio ==
    [][\A p \in Procs :
          /\ (/\ cbState = "closed"
              /\ req[p].pc = "doGetWithRetry"
              /\ req[p].generation = cbGeneration
              /\ req'[p] = NoRequest
              /\ cbRet'.err = "max retries exceeded"
              /\ Tripping([cbCounts EXCEPT !.totalFailures = @ + 1]))
             => (cbState' = "open" /\ cbExpiry' = now + breakerTimeout)
          /\ (/\ cbState = "open"
              /\ ~(cbExpiry < now)
              /\ req[p] = NoRequest
              /\ (req'[p] # NoRequest \/ (cbRet' # cbRet /\ cbRet'.proc = p)))
             => Rejected(p)]_vars

\* the breaker tripped and then rejected a call
C10_Witness ==
    /\ cbState = "open"
    /\ cbRet.err = "circuit breaker is open"

\* ------------------------------------------------------ BaseClient claims
\* goroutine p starts a GetWithRetry call in this step
StartsCall(p) ==
    /\ req[p] = NoRequest /\ fetch[p] = NoFetch
    /\ req'[p] # NoRequest \/ (cbRet' # cbRet /\ cbRet'.proc = p)

ProbeInFlight == \E q \in Procs : req[q].pc = "doGetWithRetry" /\ req[q].generation = cbGeneration

\* C11: while the breaker is open and breakerTimeout has not elapsed since it opened,
\* every GetWithRetry call that starts fails at once with the breaker-open error,
\* without a transport invocation and without a backoff wait.
C11_OpenRejectsWithoutTransport ==
    [][\A p \in Procs :
         (cbState = "open" /\ now < cbExpiry /\ StartsCall(p))
         => /\ cbRet' = [proc |-> p, err |-> "circuit breaker is open"]
            /\ req'[p] = NoRequest
            /\ fetch'[p].pc = "idle" /\ fetch'[p].transports = 0 /\ fetch'[p].waits = << >>]_vars

C11_Witness ==
    /\ cbState = "open" /\ now < cbExpiry
    /\ cbRet.err = "circuit breaker is open"
    /\ \A p \in Procs : fetch[p] = NoFetch

\* C12: once breakerTimeout has elapsed in the open state the next call makes the breaker
\* half-open and is admitted as the probe; a call that arrives while the probe is in
\* flight is rejected without a transport invocation; when the probe returns, a success
\* closes the breaker and a failure opens it again with the timeout counted from then.
C12_HalfOpenProbe ==
    [][\A p \in Procs :
         /\ (cbState = "open" /\ cbExpiry < now /\ StartsCall(p))
            => /\ cbState' = "half-open" /\ req'[p].pc = "doGetWithRetry"
               /\ fetch'[p].pc = "attempt" /\ cbCounts'.requests = 1
         /\ (cbState = "half-open" /\ ProbeInFlight /\ StartsCall(p))
            => /\ cbRet' = [proc |-> p, err |-> "too many requests"]
               /\ req'[p] = NoRequest /\ fetch'[p] = NoFetch /\ cbState' = "half-open"
         /\ (cbState = "half-open" /\ req[p].pc = "doGetWithRetry"
             /\ req[p].generation = cbGeneration /\ req'[p] = NoRequest)
            => IF fetch[p].err = "none" THEN cbState' = "closed"
               ELSE cbState' = "open" /\ cbExpiry' = now + breakerTimeout]_vars

C12_Witness ==
    /\ cbState = "open" /\ cbGeneration = 3 /\ cbExpiry = now + breakerTimeout
    /\ cbRet.err = "max retries exceeded"

\* the outcome the transport gave in this step of goroutine p, if it made an attempt
Attempts(p) == fetch'[p].transports = fetch[p].transports + 1
Got(p) == fetch'[p].got
Is2xx(o) == ~o.err /\ o.status >= 200 /\ o.status < 300
All5xx(f) == f.only5xx
Increasing(w) == \A i, j \in 1..Len(w) : i < j => w[i] < w[j]
Failed(f) == f.pc = "done" /\ f.err # "none"

C14_ClientErrorEndsFetch ==
    [][\A p \in Procs :
         /\ (Attempts(p) /\ ~Got(p).err /\ Got(p).status >= 400 /\ Got(p).status < 500
             /\ Got(p).status # 429)
            => /\ Failed(fetch'[p]) /\ fetch'[p].waits = fetch[p].waits
               /\ fetch'[p].lastErr = HTTPError(Got(p).status)
         /\ fetch[p].pc = "done" => fetch'[p] \in {fetch[p], NoFetch}]_vars

C14_Witness ==
    \E p \in Procs : LET f == fetch[p] IN
      /\ Failed(f) /\ f.lastErr = "HTTP 404"
      /\ f.transports = 2 /\ f.attempt < maxRetries /\ Len(f.waits) = 1

\* C15: when the context is cancelled while doGetWithRetry waits in a backoff (its timer
\* has not fired), the fetch ends in that step with the context's error, not with the
\* retry-exhausted error, and makes no further transport attempt.
C15_CancelDuringBackoffAborts ==
    [][\A p \in Procs :
         (fetch[p].pc = "wait" /\ now < fetch[p].deadline
          /\ ~fetch[p].cancelled /\ fetch'[p].cancelled)
         => /\ fetch'[p].pc = "done" /\ fetch'[p].err = "context canceled"
            /\ fetch'[p].transports = fetch[p].transports]_vars

C15_Witness ==
    \E p \in Procs : LET f == fetch[p] IN
      /\ f.pc = "done" /\ f.err = "context canceled" /\ f.transports = 1
      /\ Len(f.waits) = f.attempt /\ now < f.deadline

\* what the fetch record keeps besides the failure it saw last
Masked(f) == [f EXCEPT !.lastErr = "none", !.got = NoOutcome, !.only5xx = TRUE]
ServerError == [reqErr |-> FALSE, err |-> FALSE, status |-> 500, readOK |-> TRUE, body |-> "b1"]

\* C16 (as stated): a 429 and a transport error are retried exactly like a 5xx, a 2xx
\* response on any attempt ends the fetch successfully with its body, and a fetch never
\* makes more than maxRetries+1 transport attempts.
C16_RetryClassesAndSuccess ==
    [][\A p \in Procs : Attempts(p) =>
         /\ (Got(p).err \/ Got(p).status = 429)
            => Masked(fetch'[p]) = Masked(Attempt(fetch[p], ServerError, now))
         /\ Is2xx(Got(p))
            => (fetch'[p].pc = "done" /\ fetch'[p].err = "none" /\ fetch'[p].body = Got(p).body)
         /\ fetch'[p].transports <= maxRetries + 1]_vars

\* C16 (amended): the same, where the 2xx response that ends the fetch is one whose body
\* was read; a 2xx response whose body cannot be read is retried like a transport error.
C16_RetryClassesAndReadSuccess ==
    [][\A p \in Procs : Attempts(p) =>
         /\ (Got(p).err \/ Got(p).status = 429 \/ (Is2xx(Got(p)) /\ ~Got(p).readOK))
            => Masked(fetch'[p]) = Masked(Attempt(fetch[p], ServerError, now))
         /\ (Is2xx(Got(p)) /\ Got(p).readOK)
            => (fetch'[p].pc = "done" /\ fetch'[p].err = "none" /\ fetch'[p].body = Got(p).body)
         /\ fetch'[p].transports <= maxRetries + 1]_vars

C16_Witness ==
    \E p \in Procs : LET f == fetch[p] IN
      /\ f.pc = "done" /\ f.err = "none" /\ f.body = "b1" /\ f.transports = maxRetries + 1
      /\ f.lastErr = "HTTP 429" /\ Len(f.waits) = maxRetries /\ Is2xx(f.got)

\* --------------------------------------------------------- Scheduler claims
\* a runFetch goroutine of this trigger runs in this step / starts a refresh cycle in it
Runs(src) == pending'[src] = pending[src] - 1
StartsCycle(src) ==
    /\ cycles' = [cycles EXCEPT ![src] = @ + 1]
    /\ lastRun' = [zero |-> FALSE, at |-> now]
PreviousCycleWithin == ~lastRun.zero /\ now - lastRun.at < interval

\* C17: a Start() on a stopped scheduler makes it running and spawns a runFetch, which
\* starts a refresh cycle, and a scheduled cycle of the same run starts one interval after
\* the previous scheduled cycle.
C17_StartRunsAndRepeats ==
    [][/\ \A g \in Starters :
            /\ (~running /\ pos[g] = "lock" /\ pos'[g] # "lock")
               => (running' /\ pos'[g] = "spawn")
            /\ (pos[g] = "spawn" /\ pos'[g] # "spawn")
               => pending'["start"] = pending["start"] + 1
       /\ Runs("start") => StartsCycle("start")
       /\ (Runs("tick") /\ StartsCycle("tick") /\ evt.sched # NoTime)
          => now - evt.sched = interval]_vars

\* C18: Stop() on a running scheduler makes it stopped and leaves the cycles in flight and
\* the spawned runFetch goroutines alone; while the scheduler is stopped the run loop
\* takes no tick; a cycle in flight ends only by its own completion.
C18_StopSuppressesTicksOnly ==
    [][/\ \A g \in Stoppers :
            /\ (running /\ pos[g] = "lock" /\ pos'[g] # "lock") => pos'[g] = "send"
            /\ (pos[g] = "sent" /\ pos'[g] # "sent")
               => (~running' /\ runLoop' = "none" /\ cycles' = cycles /\ pending' = pending)
       /\ pending'["tick"] > pending["tick"] => running
       /\ \A src \in Triggers : cycles'[src] < cycles[src] => evt'.op = "done"]_vars

\* Stop() has returned with a cycle in flight that has yet to read s.cities and a tick in
\* ticker.C that no run loop is left to take
C18_Witness ==
    /\ ~running /\ runLoop = "none" /\ \A g \in Stoppers : pos[g] = "idle"
    /\ \E src \in Triggers : cycles[src] > 0 /\ handing[src] > 0
    /\ tickPending

\* C19: the runFetch of a tick that finds the previous cycle started less than one
\* interval ago starts no cycle and queues nothing: the tick is gone; one that finds the
\* previous cycle started at least one interval ago starts a cycle.
C19_EarlyTickIsDropped ==
    [][Runs("tick") =>
         /\ PreviousCycleWithin
            => /\ cycles' = cycles /\ lastRun' = lastRun
               /\ \A src \in Triggers \ {"tick"} : pending'[src] = pending[src]
               /\ tickPending' = tickPending
         /\ (~lastRun.zero /\ now - lastRun.at >= interval) => StartsCycle("tick")]_vars

C19_Witness ==
    /\ evt.op = "runFetch" /\ evt.src = "tick" /\ ~evt.started
    /\ pending["tick"] = 0 /\ cycles["tick"] = 0 /\ now - lastRun.at < interval

\* C20: the runFetch of every ForceRun() starts a refresh cycle, also when another cycle
\* started less than one interval ago or is still in flight.
C20_ForceRunAlwaysStartsCycle ==
    [][Runs("force") => StartsCycle("force")]_vars

\* ---------------------------------------------------- aggregation claims
\* the readings of the snapshot handed to aggregateCurrentWeather, and their temperatures
Contributed == snap.current
NSources == Cardinality(DOMAIN Contributed)
TempOf == [s \in DOMAIN Contributed |-> Contributed[s].temperature]
TempSum == SumOver(TempOf, DOMAIN Contributed)
TempSquares == SumOver([s \in DOMAIN Contributed |-> TempOf[s] * TempOf[s]], DOMAIN Contributed)
\* population variance, as mean of squares minus square of the mean
PopVar == Rat(NSources * TempSquares - TempSum * TempSum, NSources * NSources)
InUnit(x) == ~RLess(x, Rat(0, 1)) /\ ~RLess(Rat(1, 1), x)
Merged == mcur.called /\ NSources >= 1

\* C21: for every non-empty set of readings, whatever their temperatures and however
\* many sources there are, calculateConfidence returns a value in [0,1] inclusive.
C21_ConfidenceInUnitInterval ==
    Merged => InUnit(mcur.res.confidence)

\* three sources that agree: 1 - 0 + 0.2 is above 1 before it is clamped
C21_Witness ==
    /\ Merged
    /\ NSources = 3
    /\ \A s, t \in DOMAIN Contributed : TempOf[s] = TempOf[t]
    /\ REq(mcur.res.confidence, Rat(1, 1))

\* 1 - min(var/25, 1) + 0.1 * (n - 1), then clamped to [0,1]
Expected ==
    LET nv == IF RLess(Rat(25, 1), PopVar) THEN Rat(1, 1) ELSE Rat(PopVar.num, PopVar.den * 25)
        raw == Rat(10 * nv.den - 10 * nv.num + (NSources - 1) * nv.den, 10 * nv.den)
    IN IF RLess(Rat(1, 1), raw) THEN Rat(1, 1) ELSE IF RLess(raw, Rat(0, 1)) THEN Rat(0, 1) ELSE raw

\* C22: calculateConfidence returns 0.5 for a single source, and for n >= 2 sources
\* clamp01(1 - min(var/25, 1) + 0.1 * (n - 1)) with var the population variance of the
\* temperatures; readings of 10 and 20 merge to temperature 15 with confidence 0.1, and
\* n >= 2 readings with identical temperature give confidence 1.
C22_ConfidenceFormula ==
    Merged =>
        /\ NSources = 1 => REq(mcur.res.confidence, Rat(1, 2))
        /\ NSources >= 2 => REq(mcur.res.confidence, Expected)
        /\ (NSources = 2 /\ {TempOf[s] : s \in DOMAIN Contributed} = {10, 20}) =>
               /\ REq(mcur.res.temperature, Rat(15, 1))
               /\ REq(mcur.res.confidence, Rat(1, 10))
        /\ (NSources >= 2 /\ \A s, t \in DOMAIN Contributed : TempOf[s] = TempOf[t]) =>
               REq(mcur.res.confidence, Rat(1, 1))

\* two sources four degrees apart: variance 4, confidence 1 - 4/25 + 0.1
C22_Witness ==
    /\ Merged
    /\ NSources = 2
    /\ {TempOf[s] : s \in DOMAIN Contributed} = {10, 14}
    /\ REq(mcur.res.confidence, Rat(94, 100))

\* the sources of the snapshot that supplied at least d forecast entries
Enough(d) == {s \in DOMAIN snap.forecasts : Len(snap.forecasts[s]) >= d}
\* the forecast stores aggregateAndCache's loop can leave, starting from an empty cache
LoopStores == cacheForecasts(Emp, Emp, snap, 1, now)
CachedDays(fc) == IF snap.city \in DOMAIN fc THEN DOMAIN fc[snap.city] ELSE {}

\* C29: aggregateForecast(snapshot, days) lists as contributing sources exactly the
\* sources that supplied at least `days` forecast entries and returns exactly `days` day
\* records, each averaging only those sources' entries at that day index; when no source
\* supplied at least `days` entries it returns absent and nothing is cached for that
\* day-count.
C29_ForecastContributors ==
    mfc.called =>
        IF Enough(mfc.days) = {}
        THEN /\ mfc.res = NoData
             /\ \A fc \in LoopStores : mfc.days \notin CachedDays(fc)
        ELSE /\ mfc.res.sources = Enough(mfc.days)
             /\ Len(mfc.res.days) = mfc.days
             /\ \A i \in 1..mfc.days :
                    REq(mfc.res.days[i],
                        Rat(SumOver([s \in Enough(mfc.days) |-> snap.forecasts[s][i]], Enough(mfc.days)),
                            Cardinality(Enough(mfc.days))))

\* two days asked of three sources with 3, 2 and 1 entries: the first two contribute
C29_Witness ==
    /\ mfc.called
    /\ mfc.days = 2
    /\ {Len(snap.forecasts[s]) : s \in DOMAIN snap.forecasts} = {1, 2, 3}
    /\ Cardinality(mfc.res.sources) = 2
    /\ Len(mfc.res.days) = 2

FieldMean(field) ==
    Rat(SumOver([s \in DOMAIN Contributed |-> Contributed[s][field]], DOMAIN Contributed), NSources)
MaxStamp ==
    CHOOSE m \in {Contributed[s].timestamp : s \in DOMAIN Contributed} :
        \A s \in DOMAIN Contributed : Contributed[s].timestamp <= m

\* C30: for every non-empty snapshot, each numeric field of the consensus current record
\* (temperature, feels-like, humidity, pressure, wind speed) equals the arithmetic mean
\* of that field over all contributing readings, and its last-updated timestamp equals
\* the maximum observation timestamp among the contributing readings.
C30_MeansAndLatestStamp ==
    Merged =>
        /\ \A field \in {"temperature", "feelsLike", "humidity", "pressure", "windSpeed"} :
               REq(mcur.res[field], FieldMean(field))
        /\ mcur.res.lastUpdated = MaxStamp

\* ---------------------------------------------------- fetch cycle claims
Cycles == Callers \X Cities
CycleOf(x) == cyc[x[1]][x[2]]
CycleAfter(x) == cyc'[x[1]][x[2]]

\* C23: in every reachable state, every snapshot stored in the aggregator's per-city
\* snapshot map contains at least one source's current reading: a snapshot is stored, and
\* aggregation is invoked on it, only after at least one source succeeded for that city
\* in that cycle.
C23_StoredSnapshotHasReading ==
    /\ \A c \in DOMAIN weatherData : DOMAIN weatherData[c].current # {}
    /\ \A x \in Cycles :
          /\ CycleOf(x).pc \in {"stored", "read", "caching"} =>
                \E s \in Sources : CycleOf(x).resp[s].hasCurrent
          /\ CycleOf(x).pc \in {"read", "caching"} => DOMAIN CycleOf(x).data.current # {}

\* a snapshot with the reading of the one source that succeeded is about to be aggregated
C23_Witness ==
    \E x \in Cycles :
        /\ CycleOf(x).pc = "read"
        /\ Cardinality(DOMAIN CycleOf(x).data.current) = 1
        /\ \E s \in Sources : ~CycleOf(x).resp[s].hasCurrent
        /\ x[2] \in DOMAIN weatherData

\* C24: in every reachable state, every consensus current record and every consensus
\* forecast record held in the cache (and hence every record returned to a caller) lists
\* a non-empty set of contributing sources.
C24_RecordsListSources ==
    /\ \A c \in DOMAIN currentWeather : currentWeather[c].data.sources # {}
    /\ \A c \in DOMAIN forecast : \A d \in DOMAIN forecast[c] : forecast[c][d].data.sources # {}
    /\ (ret.op \in {"GetAggregatedCurrentWeather", "GetAggregatedForecast"} /\ ret.ok) =>
          ret.data.sources # {}

\* a forecast record is cached and a record has been returned to a caller after a refresh
C24_Witness ==
    /\ \E c \in DOMAIN forecast : DOMAIN forecast[c] # {}
    /\ DOMAIN currentWeather # {}
    /\ ret.op \in {"GetAggregatedCurrentWeather", "GetAggregatedForecast"}
    /\ ret.ok
    /\ ~ret.hit
    /\ ret.data.sources # {}

\* the city cycles that complete in this step, successfully or not
Completing(ok) ==
    {x \in Cycles : CycleOf(x).pc # "done" /\ CycleAfter(x).pc = "done"
                     /\ (CycleAfter(x).err = "none") = ok}

\* C25: successCount and failureCount never decrease and are never reset, and no update
\* is lost: after any set of concurrent FetchWeatherData calls has completed,
\* successCount has grown by exactly the number of city cycles that succeeded and
\* failureCount by exactly the number that failed.
C25_CountersExact ==
    [][/\ successCount' = successCount + Cardinality(Completing(TRUE))
       /\ failureCount' = failureCount + Cardinality(Completing(FALSE))]_vars

\* two concurrent calls have completed, one cycle succeeded and one failed
C25_Witness ==
    /\ successCount = 1
    /\ failureCount = 1
    /\ \A k \in Callers : call[k] = NoCall

\* the sources whose response of this cycle carries at least d forecast days
Supplied(x, d) ==
    {s \in Sources : CycleOf(x).resp[s].hasForecast /\ Len(CycleOf(x).resp[s].forecast) >= d}

\* C28: when a city's refresh cycle completes successfully, the new snapshot has replaced
\* the prior one for that city and, until the TTL elapses, the cache holds the consensus
\* current record for the city and a consensus forecast for every day-count d in 1..7
\* for which at least one source supplied at least d forecast days.
C28_SuccessfulCycleFillsCache ==
    [][\A x \in Completing(TRUE) :
          /\ x[2] \in DOMAIN weatherData'
          /\ x[2] \in DOMAIN currentWeather'
          /\ \A d \in 1..MaxDays :
                Supplied(x, d) # {} =>
                    (x[2] \in DOMAIN forecast' /\ d \in DOMAIN forecast'[x[2]])]_vars

\* ---------------------------------------------------- fan-out claims
\* the coordinator is past wg.Wait() for city c: it builds, stores and aggregates the snapshot
Gathered(c) == cyc[FanCaller][c].pc \in {"stored", "read", "caching", "done"}
GatheredAfter(c) == cyc'[FanCaller][c].pc \in {"stored", "read", "caching", "done"}

\* C26: in one refresh cycle, for every (city, source) pair the source's
\* GetCurrentWeather is invoked exactly once and its GetForecast (for 3 days) exactly
\* once, whatever the outcome of the other call of that source or of any call of another
\* source or city; a failed call is never invoked a second time by the coordinator.
C26_EachCallExactlyOnce ==
    \A c \in Cities, s \in Sources :
        /\ task[c][s].nCurrent <= 1
        /\ task[c][s].nForecast <= 1
        /\ task[c][s].nForecast = 1 => task[c][s].days = 3
        /\ Gathered(c) => (task[c][s].nCurrent = 1 /\ task[c][s].nForecast = 1)

\* the cycle is over for both cities; one source failed its current-weather call and
\* its forecast call was made all the same, another source's calls both failed
C26_Witness ==
    /\ \A c \in Cities : cyc[FanCaller][c].pc = "done"
    /\ \E c \in Cities, s \in Sources :
          /\ ~task[c][s].resp.hasCurrent
          /\ task[c][s].resp.hasForecast
          /\ task[c][s].nForecast = 1
    /\ \E c \in Cities, s \in Sources :
          /\ ~task[c][s].resp.hasCurrent
          /\ ~task[c][s].resp.hasForecast
          /\ task[c][s].nCurrent = 1
          /\ task[c][s].nForecast = 1

\* C27: within a city's refresh cycle, snapshot construction and aggregation for that
\* city begin only after every source task of that cycle for that city has completed or
\* failed; no reading of a still-running task is aggregated and no task's result arrives
\* after aggregation started.
C27_AggregationAfterAllTasks ==
    [][\A c \in Cities :
          GatheredAfter(c) =>
             /\ \A s \in Sources : task'[c][s].pc = "sent"
             /\ cyc'[FanCaller][c].resp = [s \in Sources |-> task'[c][s].resp]
             /\ Gathered(c) => task'[c] = task[c]]_vars

\* one city's snapshot is being aggregated while a task of the other city still runs
C27_Witness ==
    \E c, e \in Cities :
        /\ cyc[FanCaller][c].pc = "read"
        /\ DOMAIN cyc[FanCaller][c].data.current # {}
        /\ \A s \in Sources : task[c][s].pc = "sent"
        /\ \E s \in Sources : task[e][s].pc \in {"start", "forecast"}

\* ---------------------------------------------------- cache sweep claims
ItemOf(cw, fc, k) == IF k[2] = 0 THEN cw[k[1]] ELSE fc[k[1]][k[2]]
\* this step is a cleanup sweep: no other cache operation leaves last.op = "cleanup"
\* without moving the clock or a Get
Sweeps == last'.op = "cleanup" /\ get' = get /\ now' = now

\* C32: a cleanup sweep removes every entry whose expiry instant is before the sweep
\* time from both the current-weather store and the forecast store, and leaves every
\* unexpired entry (key, payload and expiry) unchanged.
C32_SweepRemovesExpiredOnly ==
    [][Sweeps =>
          /\ KeysAfter \subseteq Keys
          /\ \A k \in Keys :
                IF ExpiryOf(currentWeather, forecast, k) < now
                THEN k \notin KeysAfter
                ELSE /\ k \in KeysAfter
                     /\ ItemOf(currentWeather', forecast', k) = ItemOf(currentWeather, forecast, k)]_vars

\* after a sweep: an unexpired entry is held, and the expired entry a Get had read
\* before the sweep is gone
C32_Witness ==
    /\ last.op = "cleanup"
    /\ \E k \in Keys : ~(ExpiryOf(currentWeather, forecast, k) < now)
    /\ \E p \in Procs :
          /\ get[p].op \in GetOps
          /\ get[p].item.expiresAt < now
          /\ <<get[p].city, get[p].days>> \notin Keys

\* this step is a put: no other cache operation leaves last.op a put without moving
\* the clock or a Get
Puts == last'.op \in SetOps /\ get' = get /\ now' = now

\* C38: a put (SetCurrentWeather or SetForecast) for a key that is already present in
\* the cache only replaces that key's entry: no entry of any other key is removed and the
\* combined occupancy is the same before and after, even when the cache is at maximum
\* size. (The key of a put is present afterwards, so a put that adds no key is a put for
\* a key already present.)
C38_PutOfPresentKeyOnlyReplaces ==
    [][(Puts /\ KeysAfter \subseteq Keys) =>
          /\ KeysAfter = Keys
          /\ totalItems(currentWeather', forecast') = totalItems(currentWeather, forecast)]_vars

\* ---------------------------------------------------- refresh claims
\* both callers' cycles for city c have completed successfully
BothCompleted(c) == \A k \in Callers : cyc[k][c].pc = "done" /\ cyc[k][c].err = "none"

\* C37: if two refresh cycles for the same city run concurrently (a scheduled cycle and
\* a cache-miss refresh), then once both have completed the consensus current record in
\* the cache is the aggregate of the snapshot stored for that city: the cache never ends
\* up holding a consensus derived from a snapshot that has since been replaced.
C37_CacheMatchesStoredSnapshot ==
    \A c \in Cities :
        (BothCompleted(c) /\ c \in DOMAIN currentWeather) =>
            currentWeather[c].data = aggregateCurrentWeather(weatherData[c])

\* this step is the return of the scheduler's FetchWeatherData
Returns == call[FanCaller] # NoCall /\ call'[FanCaller] = NoCall
FailedCities == {c \in Cities : cyc[FanCaller][c].err # "none"}

\* C34: FetchWeatherData over several cities attempts every city regardless of other
\* cities' failures, caches the consensus of every city that succeeded, and returns an
\* error if and only if at least one city's cycle failed.
C34_CitiesAreIndependent ==
    [][/\ \A x \in Completing(TRUE) :
             /\ x[2] \in DOMAIN currentWeather'
             /\ currentWeather'[x[2]].data = aggregateCurrentWeather(WeatherData(x[2], CycleOf(x).resp))
       /\ Returns =>
             /\ \A c \in Cities :
                   /\ cyc[FanCaller][c].pc = "done"
                   /\ \A s \in Sources : task[c][s].nCurrent = 1 /\ task[c][s].nForecast = 1
             /\ ret'.op = "FetchWeatherData"
             /\ ret'.ok <=> FailedCities = {}
             /\ ret'.err # "none" <=> FailedCities # {}]_vars

\* the call returned an error: one city failed, the other was attempted all the same and
\* its consensus is cached
C34_Witness ==
    /\ ret.op = "FetchWeatherData"
    /\ ~ret.ok
    /\ failureCount = 1
    /\ successCount = 1
    /\ Cardinality(DOMAIN currentWeather) = 1
    /\ \A c \in Cities, s \in Sources : task[c][s].pc = "sent"

\* day-counts beyond the forecast days a refresh asks of the sources
LongDays == (FetchDays + 1)..MaxDays
\* caller k's GetAggregatedForecast for a long day-count returns in this step
LongForecastReturns(k) ==
    call[k].op = "GetAggregatedForecast" /\ call[k].days \in LongDays /\ call'[k] = NoCall
NoLongForecastCached ==
    \A c \in DOMAIN forecast : DOMAIN forecast[c] \cap LongDays = {}

\* C39: because every refresh asks each source for a fixed 3-day forecast and an adapter
\* returns at most the requested number of days, no forecast entry for a day-count d in
\* 4..7 is ever put in the cache, so GetAggregatedForecast(city, d) with d in 4..7 never
\* returns a forecast: each such call runs a refresh of the city and then fails with the
\* not-available error.
C39_LongForecastNotAvailable ==
    /\ []NoLongForecastCached
    /\ [][\A k \in Callers : LongForecastReturns(k) =>
             (~ret'.ok /\ ret'.err = "not available")]_vars

\* C39, amended: no forecast entry for a day-count d in 4..7 is ever put in the cache, and
\* each GetAggregatedForecast(city, d) with d in 4..7 runs a refresh of the city and then
\* fails without a forecast: with the failed-to-fetch error when the refresh failed, and
\* with the not-available error when it succeeded.
C39_LongForecastAlwaysFails ==
    /\ []NoLongForecastCached
    /\ [][\A k \in Callers : LongForecastReturns(k) =>
             /\ cyc[k][call[k].city].pc = "done"
             /\ ~ret'.ok
             /\ ret'.data = NoData
             /\ ret'.err = IF cyc[k][call[k].city].err = "none" THEN "not available"
                            ELSE "failed to fetch"]_vars

\* a call for 4 days has refreshed the city successfully, the sources' 3 days are cached,
\* and the call is about to return not-available
C39_Witness ==
    \E k \in Callers :
        /\ call[k].op = "GetAggregatedForecast"
        /\ call[k].days = 4
        /\ cyc[k][call[k].city].pc = "done"
        /\ cyc[k][call[k].city].err = "none"
        /\ call[k].city \in DOMAIN forecast
        /\ 3 \in DOMAIN forecast[call[k].city]
        /\ 4 \notin DOMAIN forecast[call[k].city]

\* ---------------------------------------------------- breaker accounting claims
\* goroutine p's GetWithRetry call returns from doGetWithRetry in this step, and the
\* breaker is still in the generation that admitted the call
ReturnsCounted(p) ==
    /\ fetch[p].pc = "done"
    /\ fetch'[p] = NoFetch
    /\ req[p].generation = CurrentState(now).generation

\* C31: the circuit breaker of a source counts one request per GetWithRetry call, not per
\* transport attempt: a call that exhausts all its retries counts as exactly one failure,
\* and a call that succeeds after failed attempts counts as exactly one success.
C31_OneRequestPerCall ==
    [][\A p \in Procs :
         /\ (fetch[p] = NoFetch /\ fetch'[p].pc = "attempt") =>
                cbCounts'.requests = CurrentState(now).counts.requests + 1
         /\ Attempts(p) => cbCounts' = cbCounts
         /\ (ReturnsCounted(p) /\ cbState' = cbState) =>
                /\ cbCounts'.requests = cbCounts.requests
                /\ IF fetch[p].err = "none"
                   THEN /\ cbCounts'.totalSuccesses = cbCounts.totalSuccesses + 1
                        /\ cbCounts'.totalFailures = cbCounts.totalFailures
                   ELSE /\ cbCounts'.totalFailures = cbCounts.totalFailures + 1
                        /\ cbCounts'.totalSuccesses = cbCounts.totalSuccesses]_vars

\* a call has made all its maxRetries + 1 attempts in vain and another has succeeded on
\* its third attempt; the breaker has counted two requests
C31_Witness ==
    \E p, q \in Procs :
        /\ fetch[p].pc = "done" /\ fetch[p].err = "max retries exceeded"
        /\ fetch[p].transports = maxRetries + 1
        /\ fetch[q].pc = "done" /\ fetch[q].err = "none"
        /\ fetch[q].transports = maxRetries + 1
        /\ cbCounts.requests = 2
        /\ cbCounts.totalFailures = 0
        /\ cbCounts.totalSuccesses = 0

\* ---------------------------------------------------- scheduler lifecycle claims
\* C35: whenever the scheduler is in the running state, after any sequence and
\* interleaving of Start() and Stop() calls (including a Stop() immediately followed by a
\* Start()), the ticker created by the latest Start() is still active and exactly one run
\* loop is listening to it: the run loop ended by a Stop() never stops the ticker created
\* by a later Start().
C35_LatestTickerStaysActive ==
    (running /\ \A g \in Starters \cup Stoppers : pos[g] \in {"idle", "lock"})
    => (ticker.on /\ runLoop = "select")

\* C36: every Stop() call eventually returns, although it holds s.mu while it sends on
\* the unbuffered stop channel: the run loop receives the signal, and no caller of
\* Start, Stop or GetStatus waits forever, and the mutex a runFetch goroutine waits for
\* is released.
C36_StopReturns ==
    /\ \A g \in SchedCallers : (pos[g] # "idle") ~> (pos[g] = "idle")
    /\ ((\E src \in Triggers : pending[src] > 0) /\ mu # "free") ~> (mu = "free")
\* Stop holds the mutex and is blocked in its send before the run loop of the Start in
\* progress exists, while GetStatus and a runFetch wait for the mutex
C36_Witness ==
    /\ pos["shutdown"] = "send"
    /\ mu = "shutdown"
    /\ runLoop = "none"
    /\ pos["main"] = "spawn"
    /\ pos["status"] = "lock"
    /\ pending["force"] > 0

\* ---------------------------------------------------- deadline claims
\* the cycle of city c ends in this step
Ends(c) == cyc[FanCaller][c].pc # "done" /\ cyc'[FanCaller][c].pc = "done"
\* what the cache map m holds for city c
EntriesOf(m, c) == IF c \in DOMAIN m THEN {m[c]} ELSE {}
\* the cities whose aggregation was complete when the deadline passed
AggregatedBefore == deadline.aggregated

\* C33: if the deadline of a refresh expires while some cities are still pending, each
\* pending city's cycle ends as a failure (failureCount incremented, the refresh returns
\* an error), and the cached entries of the cities aggregated before stay as they are.
C33_PendingCitiesFail ==
    [][/\ \A c \in deadline.pending :
             Ends(c) => /\ cyc'[FanCaller][c].err # "none"
                        /\ failureCount' = failureCount + 1
       /\ (deadline.pending # {} /\ call[FanCaller] # NoCall /\ call'[FanCaller] = NoCall)
             => ~ret'.ok
       /\ deadline.expired =>
             \A c \in AggregatedBefore :
                 /\ EntriesOf(currentWeather', c) = EntriesOf(currentWeather, c)
                 /\ EntriesOf(forecast', c) = EntriesOf(forecast, c)]_vars

\* ---------------------------------------------------- termination claims
\* the Lock() calls of refresh k are served: its goroutines do not find the mutex of
\* the writers free again and again without any of them ever getting on (sync.Mutex
\* hands the lock over to a waiter that has waited for long)
Served(k) ==
    \/ <>[](~(CallerCanLock(k) \/ \E i \in 1..TermCities : CityCanLock(k, i)))
    \/ []<><<rf'[k] # rf[k] \/ cg'[k] # cg[k]>>_<<rf, cg>>

\* C40: provided every source call returns, every FetchWeatherData call terminates,
\* whatever the interleaving with the other refresh, with GetLastFetchTime and GetStats,
\* with the Gets of the cache and with cleanup sweeps: a refresh whose Lock() calls are
\* served is out of its call again and again, so that a call in progress ends and none
\* of its goroutines waits forever at the responses channel, at the errors channel, at
\* a.mu or at c.mu; the same holds for a handler in GetLastFetchTime or GetStats.
C40_RefreshTerminates ==
    /\ \A k \in Callers : Served(k) => []<>(rf[k].pc = "idle")
    /\ []<>(gs = "idle")
\* the scheduler's refresh of two cities has one error in its errors channel and the
\* other city's goroutine about to send the second, while the handler's refresh is in
\* SetCurrentWeather holding c.mu, GetStats holds a.mu and waits for c.mu, the Get has
\* released c.mu and has yet to get through its c.mu.Lock(), and the first city's
\* goroutine is in a.mu.Lock() and waits for GetStats to leave
C40_Witness ==
    /\ rf["scheduler"].n = 2 /\ rf["scheduler"].errors = 1
    /\ cg["scheduler"][1].pc = "fail" /\ cg["scheduler"][1].st = "wait"
    /\ cg["scheduler"][2].pc = "error"
    /\ cg["handler"][1].pc = "current" /\ cg["handler"][1].st = "in"
    /\ gs = "cache"
    /\ cget = "lock"
====
